---- MODULE Spec2Model ----
(***************************************************************************)
(* A model of the link-extractor ingestion and enrichment pipeline:        *)
(* MarkdownLinkParser, RateLimitedFetcher, Database and                    *)
(* LinkExtractorPipeline.                                                  *)
(*                                                                         *)
(* Conventions.  An Optional value is a sequence of length at most one:    *)
(* None is << >> and Some(x) is << x >>.  A text whose characters the code *)
(* never inspects is kept as its length (page content) or as a tuple of    *)
(* strings, its words (titles, descriptions, error messages).  A URL is a  *)
(* string; the parts                                                       *)
(* urlparse() gives for it (netloc, lower-cased path suffix, or a          *)
(* ValueError) are tabulated for the URLs of the model.                    *)
(***************************************************************************)
EXTENDS Integers, Sequences, FiniteSets, TLC

VARIABLES
    \* ---- MarkdownLinkParser (pure functions on one section) ----
    p_section,      \* the lines handed to _extract_links_section
    p_out,          \* the list _parse_links_section returned, None before the call
    \* ---- RateLimitedFetcher._rate_limit under concurrent fetch() calls ----
    clock,          \* asyncio loop time, in ticks
    min_interval,   \* self.min_interval, in ticks
    last_request,   \* self._domain_last_request: host -> Optional time
    lock_holder,    \* self._lock: the task inside the critical section
    lock_waiters,   \* self._lock._waiters, FIFO
    t_pc,           \* per task: position inside fetch()
    t_url,          \* per task: the URL being fetched
    t_last,         \* per task: local "last_request" read in _rate_limit
    t_wake,         \* per task: time at which asyncio.sleep may return
    starts,         \* history: per host, the start times written, in order
    reads,          \* history: per host, the last_request values read, in order
    \* ---- RateLimitedFetcher.fetch as a function of URL and network ----
    f_url,          \* argument of fetch()
    f_net,          \* what the network does for this call
    f_state,        \* "ready", "sleep", "request", "read", "returned" or "raised"
    f_result,       \* the FetchResult returned (None before, and when raised)
    f_trace,        \* history: "rate_limit" and "request" as the call performs them
    \* ---- LinkExtractorPipeline over the Database and the source tree ----
    tree,           \* the daily notes: file -> text
    log,            \* table processing_log: file -> Optional file_hash
    links,          \* table links: row id -> LinkRecord
    link_tags,      \* table link_tags (joined with tags)
    batch_size,     \* config.batch_size
    pc,             \* position of the running command, "idle" between commands
    opts,           \* the arguments of run()
    files,          \* run(): the list scan() returned
    fi,             \* run(): index of the file being processed
    parsed,         \* run(): the links parse_file returned for that file
    li,             \* run(): index of the link being processed
    batch,          \* the rows a stage selected (their ids, in query order)
    bi,             \* index in batch of the row being processed
    ev,             \* history: what the last step of the pipeline did
    repeat,         \* history: this run repeats a complete run on the same tree
    tag_tried,      \* history: the rows tagger.tag was called for, in any run
    resumed         \* history: the extract stage at work follows an interrupted run

parseVars == << p_section, p_out >>
rateVars == << clock, min_interval, last_request, lock_holder, lock_waiters,
               t_pc, t_url, t_last, t_wake, starts, reads >>
fetchVars == << f_url, f_net, f_state, f_result, f_trace >>
pipeVars == << tree, log, links, link_tags, batch_size, pc, opts, files, fi,
               parsed, li, batch, bi, ev, repeat, tag_tried,
               resumed >>

vars == << parseVars, rateVars, fetchVars, pipeVars >>

None == << >>
Some(x) == << x >>
IsNone(o) == o = << >>
Val(o) == o[1]

Min(a, b) == IF a <= b THEN a ELSE b

(***************************************************************************)
(* URLs of the model and what urlparse() yields for them.                  *)
(***************************************************************************)
UrlA == "http://a.test"
UrlB == "http://b.test"
UrlC == "http://c.test"
UrlA2 == "http://a.test/page"
UrlImg == "http://a.test/pic.JPG"
UrlPdf == "http://b.test/doc.pdf"
UrlBad == "http://[bad"

\* urlparse(url) raises ValueError("Invalid IPv6 URL") for an unbalanced "[".
UrlParseRaises(url) == url = UrlBad

\* urlparse(url).netloc
Netloc(url) ==
    CASE url \in {UrlA, UrlA2, UrlImg} -> "a.test"
      [] url \in {UrlB, UrlPdf} -> "b.test"
      [] url = UrlC -> "c.test"
      [] OTHER -> ""

\* the suffix of urlparse(url).path.lower() that endswith() is tested on
PathSuffixLower(url) ==
    CASE url = UrlImg -> ".jpg"
      [] url = UrlPdf -> ".pdf"
      [] OTHER -> ""

(***************************************************************************)
(* MarkdownLinkParser.                                                     *)
(*                                                                         *)
(* A line of the section is [ws, bullet, content]: ws is the leading       *)
(* whitespace ("t" a tab, "s" any other whitespace character), bullet says *)
(* whether the line matches LIST_ITEM, content is what LIST_ITEM's group 2 *)
(* holds, as tokens: [t |-> "md"] an inline link [a](b) matched by         *)
(* MARKDOWN_LINK, [t |-> "url"] a bare URL b matched by BARE_URL,          *)
(* [t |-> "w"] other text a, [t |-> "dash"] a "-" between blanks.          *)
(* A line with bullet = FALSE and no content is blank.                     *)
(***************************************************************************)
Md(title, url) == [t |-> "md", a |-> title, b |-> url]
Bare(url) == [t |-> "url", a |-> "", b |-> url]
Word(s) == [t |-> "w", a |-> s, b |-> ""]
Dash == [t |-> "dash", a |-> "-", b |-> ""]

Line(ws, bullet, content) == [ws |-> ws, bullet |-> bullet, content |-> content]

Spaces4 == << "s", "s", "s", "s" >>
Tab == << "t" >>

IsBlank(line) == ~line.bullet /\ line.content = << >>

RECURSIVE CountTabs(_)
CountTabs(ws) ==
    IF ws = << >> THEN 0
    ELSE (IF Head(ws) = "t" THEN 1 ELSE 0) + CountTabs(Tail(ws))

\* indent_str.count("\t") + len(indent_str.replace("\t", "")) // 4
IndentLevel(ws) == CountTabs(ws) + ((Len(ws) - CountTabs(ws)) \div 4)

\* str.strip() on the section text: leading and trailing blank lines go, and
\* the first remaining line loses its leading whitespace.
RECURSIVE DropLeadingBlank(_)
DropLeadingBlank(lines) ==
    IF lines = << >> THEN << >>
    ELSE IF IsBlank(Head(lines)) THEN DropLeadingBlank(Tail(lines))
    ELSE lines

RECURSIVE DropTrailingBlank(_)
DropTrailingBlank(lines) ==
    IF lines = << >> THEN << >>
    ELSE IF IsBlank(lines[Len(lines)])
         THEN DropTrailingBlank(SubSeq(lines, 1, Len(lines) - 1))
    ELSE lines

StripSection(lines) ==
    LET kept == DropTrailingBlank(DropLeadingBlank(lines))
    IN IF kept = << >> THEN << >>
       ELSE << [kept[1] EXCEPT !.ws = << >>] >> \o Tail(kept)

\* _extract_links_section: None when the heading is absent, else the
\* stripped text between the heading and the next "## " heading.
ExtractLinksSection(text) ==
    IF ~text.has_section THEN None ELSE Some(StripSection(text.lines))

\* str.strip(" -") on a token sequence: dashes at either end go.
RECURSIVE StripDashLeft(_)
StripDashLeft(toks) ==
    IF toks = << >> THEN << >>
    ELSE IF Head(toks).t = "dash" THEN StripDashLeft(Tail(toks))
    ELSE toks

RECURSIVE StripDashRight(_)
StripDashRight(toks) ==
    IF toks = << >> THEN << >>
    ELSE IF toks[Len(toks)].t = "dash"
         THEN StripDashRight(SubSeq(toks, 1, Len(toks) - 1))
    ELSE toks

StripDashesMutLeftOnly(toks) == StripDashLeft(toks)

StripDashes(toks) == StripDashRight(StripDashLeft(toks))

RECURSIVE FirstIndex(_, _, _)
FirstIndex(toks, kind, i) ==
    IF i > Len(toks) THEN 0
    ELSE IF toks[i].t = kind THEN i
    ELSE FirstIndex(toks, kind, i + 1)

RECURSIVE RemoveKind(_, _)
RemoveKind(toks, kind) ==
    IF toks = << >> THEN << >>
    ELSE IF Head(toks).t = kind THEN RemoveKind(Tail(toks), kind)
    ELSE << Head(toks) >> \o RemoveKind(Tail(toks), kind)

\* the text of a token as it stands in the line
TokText(tok) == IF tok.t = "url" THEN tok.b ELSE tok.a

TextOf(toks) == [i \in 1..Len(toks) |-> TokText(toks[i])]

ExtractedLink(url, title, description, date, file, level, parent) ==
    [url |-> url, title |-> title, description |-> description,
     source_date |-> date, source_file |-> file,
     indent_level |-> level, parent_url |-> parent]

\* _parse_link_content: Some(ExtractedLink) or None
ParseLinkContent(content, date, file, level, parent) ==
    LET m == FirstIndex(content, "md", 1)
        u == FirstIndex(content, "url", 1)
    IN IF m > 0
       THEN LET d == StripDashes(RemoveKind(content, "md"))
            IN Some(ExtractedLink(content[m].b, Some(<< content[m].a >>),
                                  IF d = << >> THEN None ELSE Some(TextOf(d)),
                                  date, file, level, parent))
       ELSE IF u > 0
       THEN LET d == StripDashes(SubSeq(content, 1, u - 1))
            IN Some(ExtractedLink(content[u].b, None,
                                  IF d = << >> THEN None ELSE Some(TextOf(d)),
                                  date, file, level, parent))
       ELSE None

\* while parent_stack and parent_stack[-1][0] >= indent_level: pop()
RECURSIVE PopStackMutStrict(_, _)
PopStackMutStrict(stack, level) ==
    IF stack /= << >> /\ stack[Len(stack)][1] > level
    THEN PopStackMutStrict(SubSeq(stack, 1, Len(stack) - 1), level)
    ELSE stack

RECURSIVE PopStack(_, _)
PopStack(stack, level) ==
    IF stack /= << >> /\ stack[Len(stack)][1] >= level
    THEN PopStack(SubSeq(stack, 1, Len(stack) - 1), level)
    ELSE stack

\* the body of the for loop of _parse_links_section, from line i on
RECURSIVE ParseLines(_, _, _, _, _, _)
ParseLines(section, i, acc, stack, date, file) ==
    IF i > Len(section) THEN acc
    ELSE IF ~section[i].bullet
    THEN ParseLines(section, i + 1, acc, stack, date, file)
    ELSE LET level == IndentLevel(section[i].ws)
             popped == PopStack(stack, level)
             parent == IF popped /= << >>
                       THEN Some(popped[Len(popped)][2]) ELSE None
             link == ParseLinkContent(section[i].content, date, file, level, parent)
         IN IF IsNone(link)
            THEN ParseLines(section, i + 1, acc, popped, date, file)
            ELSE ParseLines(section, i + 1, Append(acc, Val(link)),
                            Append(popped, << level, Val(link).url >>), date, file)

ParseLinksSection(section, date, file) ==
    ParseLines(section, 1, << >>, << >>, date, file)

\* parse_file on the text of a file
ParseFile(text, date, file) ==
    LET sec == ExtractLinksSection(text)
    IN IF IsNone(sec) \/ Val(sec) = << >> THEN << >>
       ELSE ParseLinksSection(Val(sec), date, file)

(***************************************************************************)
(* Specification of the parser: a section is drawn, then parsed.           *)
(***************************************************************************)
MaxLines == 3

ParserDate == 20250315
ParserFile == "2025-03-15.md"

ParserWs == { << >>, Spaces4, Tab, Tab \o Spaces4 }

ParserContents ==
    { << Md("A", UrlA) >>,
      << Md("B", UrlB), Dash, Bare(UrlA) >>,
      << Word("bare note"), Dash, Bare(UrlC) >>,
      << Dash, Word("see"), Bare(UrlC), Word("later") >>,
      << Word("todo") >> }

ParserLines ==
    { Line(ws, TRUE, c) : ws \in ParserWs, c \in ParserContents }
    \cup { Line(<< >>, FALSE, << >>), Line(<< >>, FALSE, << Word("text") >>) }

ParserSections == UNION { [1..n -> ParserLines] : n \in 0..MaxLines }

\* the section of the worked example of the specification
ExampleLines ==
    << Line(<< >>, TRUE, << Md("A", UrlA) >>),
       Line(Spaces4, TRUE, << Md("B", UrlB) >>),
       Line(<< >>, TRUE, << Word("bare note"), Dash, Bare(UrlC) >>) >>

RateIdle ==
    /\ clock = 0
    /\ min_interval = 1
    /\ last_request = << >>
    /\ lock_holder = None
    /\ lock_waiters = << >>
    /\ t_pc = << >>
    /\ t_url = << >>
    /\ t_last = << >>
    /\ t_wake = << >>
    /\ starts = << >>
    /\ reads = << >>

FetchIdle ==
    /\ f_url = UrlA
    /\ f_net = None
    /\ f_state = "idle"
    /\ f_result = None
    /\ f_trace = << >>

ParseIdle ==
    /\ p_section = << >>
    /\ p_out = None

PipeIdle ==
    /\ tree = << >>
    /\ log = << >>
    /\ links = << >>
    /\ link_tags = {}
    /\ batch_size = 0
    /\ pc = "off"
    /\ opts = << >>
    /\ files = << >>
    /\ fi = 0
    /\ parsed = << >>
    /\ li = 0
    /\ batch = << >>
    /\ bi = 0
    /\ ev = ""
    /\ repeat = FALSE
    /\ tag_tried = {}
    /\ resumed = FALSE

ParseInit ==
    /\ p_section \in ParserSections
    /\ p_out = None
    /\ RateIdle
    /\ FetchIdle
    /\ PipeIdle

\* MarkdownLinkParser._parse_links_section on the stripped section
ParseSection ==
    /\ IsNone(p_out)
    /\ p_out' = Some(ParseLinksSection(StripSection(p_section), ParserDate, ParserFile))
    /\ UNCHANGED << p_section, rateVars, fetchVars, pipeVars >>

ParseNext == ParseSection

SpecParse == ParseInit /\ [][ParseNext]_vars

----------------------------------------------------------------------------
(* Properties of the parser *)

HasLinkToken(content) ==
    \E i \in 1..Len(content) : content[i].t \in {"md", "url"}

\* the lines of sec that yield a link
EmitIdx(sec) == { i \in 1..Len(sec) : sec[i].bullet /\ HasLinkToken(sec[i].content) }

\* the line the k-th emitted link came from
NthEmit(sec, k) ==
    CHOOSE i \in EmitIdx(sec) : Cardinality({ j \in EmitIdx(sec) : j <= i }) = k

LineLevel(sec, i) == IndentLevel(sec[i].ws)

\* emitted links before the k-th that are still open ancestors of it
OpenAncestors(sec, k) ==
    LET p == NthEmit(sec, k)
    IN { j \in 1..(k - 1) :
           LET q == NthEmit(sec, j)
           IN /\ LineLevel(sec, q) < LineLevel(sec, p)
              /\ \A r \in (q + 1)..(p - 1) :
                    sec[r].bullet => LineLevel(sec, r) > LineLevel(sec, q) }

ExpectedParent(sec, out, k) ==
    LET anc == OpenAncestors(sec, k)
    IN IF anc = {} THEN None
       ELSE Some(out[CHOOSE j \in anc : \A j2 \in anc : j2 <= j].url)

HierarchyOf(sec, out) ==
    /\ Len(out) = Cardinality(EmitIdx(sec))
    /\ \A k \in 1..Len(out) : out[k].parent_url = ExpectedParent(sec, out, k)

ExampleParsed ==
    ParseFile([has_section |-> TRUE, lines |-> ExampleLines], ParserDate, ParserFile)

\* C8: hierarchy correctness.  The parent_url of every emitted link is the
\* URL of the nearest preceding emitted link of strictly smaller indent level
\* with no bullet line in between at or below that link's level, and is
\* absent when there is none; the three-line example yields parents none,
\* http://a.test, none and indent levels 0, 1, 0.
C8_Hierarchy ==
    /\ ~IsNone(p_out) => HierarchyOf(StripSection(p_section), Val(p_out))
    /\ Len(ExampleParsed) = 3
    /\ [k \in 1..3 |-> ExampleParsed[k].parent_url] = << None, Some(UrlA), None >>
    /\ [k \in 1..3 |-> ExampleParsed[k].indent_level] = << 0, 1, 0 >>
    /\ [k \in 1..3 |-> ExampleParsed[k].url] = << UrlA, UrlB, UrlC >>

\* a parse in which a URL-less bullet closed an ancestor, a child kept its
\* parent and a later sibling got none
C8_Witness ==
    /\ ~IsNone(p_out)
    /\ Len(Val(p_out)) = 2
    /\ Len(p_section) = 3
    /\ p_section[2].bullet /\ ~HasLinkToken(p_section[2].content)
    /\ LineLevel(p_section, 2) = 0
    /\ Val(p_out)[2].indent_level = 1
    /\ Val(p_out)[2].parent_url = None

C8_WitnessChild ==
    /\ ~IsNone(p_out)
    /\ Len(Val(p_out)) = 3
    /\ Val(p_out)[2].parent_url = Some(Val(p_out)[1].url)
    /\ Val(p_out)[3].parent_url = Some(Val(p_out)[2].url)

\* the tokens of a line before position j, without the dashes at either end
TextBefore(content, j) ==
    LET words == { i \in 1..(j - 1) : content[i].t /= "dash" }
    IN IF words = {} THEN << >>
       ELSE LET lo == CHOOSE i \in words : \A i2 \in words : i <= i2
                hi == CHOOSE i \in words : \A i2 \in words : i2 <= i
            IN [i \in 1..(hi - lo + 1) |-> TokText(content[lo + i - 1])]

\* what a link-bearing line must yield: the first inline link when there is
\* one, else the first bare URL with the text before it
LineYields(content, link) ==
    LET mds == { i \in 1..Len(content) : content[i].t = "md" }
        urls == { i \in 1..Len(content) : content[i].t = "url" }
    IN IF mds /= {}
       THEN LET j == CHOOSE i \in mds : \A i2 \in mds : i <= i2
            IN /\ link.title = Some(<< content[j].a >>)
               /\ link.url = content[j].b
       ELSE LET j == CHOOSE i \in urls : \A i2 \in urls : i <= i2
            IN /\ link.title = None
               /\ link.url = content[j].b
               /\ link.description =
                     (IF TextBefore(content, j) = << >> THEN None
                      ELSE Some(TextBefore(content, j)))

LineMatchingOf(sec, out) ==
    /\ Len(out) = Cardinality(EmitIdx(sec))
    /\ \A k \in 1..Len(out) :
          /\ LineYields(sec[NthEmit(sec, k)].content, out[k])
          /\ out[k].indent_level = LineLevel(sec, NthEmit(sec, k))
          /\ \/ out[k].parent_url = None
             \/ \E j \in 1..(k - 1) : out[k].parent_url = Some(out[j].url)

CoolReadParsed ==
    ParseLinksSection(
        << Line(<< >>, TRUE, << Word("cool read"), Dash, Bare("https://x.test/p") >>) >>,
        ParserDate, ParserFile)

\* C18: line matching.  Every bullet line holding an inline link or a bare
\* URL yields exactly one link and every other line yields none; a line with
\* an inline link yields that link's title and url even when a bare URL stands
\* on the same line; a line with only a bare URL yields no title, the URL and
\* the text before it without surrounding dashes ("cool read - URL" gives
\* "cool read"); a parent is always an emitted link, never a URL-less bullet.
C18_LineMatching ==
    /\ ~IsNone(p_out) => LineMatchingOf(StripSection(p_section), Val(p_out))
    /\ Len(CoolReadParsed) = 1
    /\ CoolReadParsed[1].url = "https://x.test/p"
    /\ CoolReadParsed[1].title = None
    /\ CoolReadParsed[1].description = Some(<< "cool read" >>)

\* a parse of three bullets: an inline link beside a bare URL, a URL-less
\* bullet one level down, and a bare URL with text on both sides two levels
\* down whose parent is the first line's link
C18_Witness ==
    /\ ~IsNone(p_out)
    /\ Len(p_section) = 3
    /\ p_section[1].content = << Md("B", UrlB), Dash, Bare(UrlA) >>
    /\ p_section[2].bullet /\ ~HasLinkToken(p_section[2].content)
    /\ LineLevel(p_section, 2) = 1
    /\ p_section[3].content = << Dash, Word("see"), Bare(UrlC), Word("later") >>
    /\ LineLevel(p_section, 3) = 2
    /\ Len(Val(p_out)) = 2
    /\ Val(p_out)[1].title = Some(<< "B" >>)
    /\ Val(p_out)[1].url = UrlB
    /\ Val(p_out)[2].title = None
    /\ Val(p_out)[2].description = Some(<< "see" >>)
    /\ Val(p_out)[2].parent_url = Some(UrlB)

\* C22: every link emitted for a section carries as indent_level the number
\* of tabs plus a quarter (rounded down) of the number of other whitespace
\* characters in the leading whitespace its line has in the file, the first
\* line after the heading included.
C22_IndentLevel ==
    ~IsNone(p_out) =>
        /\ Len(Val(p_out)) = Cardinality(EmitIdx(p_section))
        /\ \A k \in 1..Len(Val(p_out)) :
              Val(p_out)[k].indent_level = LineLevel(p_section, NthEmit(p_section, k))

(***************************************************************************)
(* RateLimitedFetcher: skip rules and the per-domain rate limiter.         *)
(***************************************************************************)
SKIP_EXTENSIONS == {".jpg", ".jpeg", ".png", ".gif", ".webp", ".mp4", ".mp3", ".wav"}
PDF_EXTENSIONS == {".pdf"}

\* is_pdf / should_skip: any(path.endswith(ext) for ext in ...)
IsPdf(url) == PathSuffixLower(url) \in PDF_EXTENSIONS
ShouldSkipMutNever(url) == FALSE
ShouldSkip(url) == PathSuffixLower(url) \in SKIP_EXTENSIONS

NumTasks == 2
MaxTime == 4
MaxInterval == 2

Tasks == 1..NumTasks
Hosts == {"a.test", "b.test"}
RateUrls == {UrlA, UrlB, UrlImg}

\* self._domain_last_request.get(domain, 0)
LastRequestOf(domain) ==
    IF IsNone(last_request[domain]) THEN 0 ELSE Val(last_request[domain])

\* asyncio.Lock.acquire takes the lock without suspending only when it is
\* unlocked and nobody is queued before the caller.
LockAvailableMutNoLock == TRUE
LockAvailableMutBarge == lock_waiters = << >>
LockAvailable == IsNone(lock_holder) /\ lock_waiters = << >>

\* self.min_interval - (now - last_request)
WaitTimeMutNoWait(now, last) == 0
WaitTime(now, last) == min_interval - (now - last)

\* The body of _rate_limit from the moment task t holds the lock up to its
\* first suspension: either it suspends in asyncio.sleep with the lock held,
\* or it writes the start time and releases the lock in the same step.
RateLimitBody(t, waiters) ==
    LET domain == Netloc(Val(t_url'[t]))
        now == clock
        last == LastRequestOf(domain)
        wait == WaitTime(now, last)
    IN /\ t_last' = [t_last EXCEPT ![t] = last]
       /\ reads' = [reads EXCEPT ![domain] = Append(@, last)]
       /\ lock_waiters' = waiters
       /\ IF wait > 0
          THEN /\ t_pc' = [t_pc EXCEPT ![t] = "sleep"]
               /\ t_wake' = [t_wake EXCEPT ![t] = now + wait]
               /\ lock_holder' = Some(t)
               /\ UNCHANGED << last_request, starts >>
          ELSE /\ t_pc' = [t_pc EXCEPT ![t] = "request"]
               /\ last_request' = [last_request EXCEPT ![domain] = Some(clock)]
               /\ starts' = [starts EXCEPT ![domain] = Append(@, clock)]
               /\ lock_holder' = None
               /\ UNCHANGED t_wake

RateInit ==
    /\ clock = 0
    /\ min_interval \in 1..MaxInterval
    /\ last_request = [h \in Hosts |-> None]
    /\ lock_holder = None
    /\ lock_waiters = << >>
    /\ t_pc = [t \in Tasks |-> "idle"]
    /\ t_url = [t \in Tasks |-> None]
    /\ t_last = [t \in Tasks |-> 0]
    /\ t_wake = [t \in Tasks |-> 0]
    /\ starts = [h \in Hosts |-> << >>]
    /\ reads = [h \in Hosts |-> << >>]
    /\ ParseIdle
    /\ FetchIdle
    /\ PipeIdle

\* fetch(url) for a media or PDF URL: returns Skipped before the limiter
FetchSkipped(t, url) ==
    /\ t_pc[t] = "idle"
    /\ ShouldSkip(url) \/ IsPdf(url)
    /\ UNCHANGED rateVars
    /\ UNCHANGED << parseVars, fetchVars, pipeVars >>

\* fetch(url) reaches "async with self._lock" and gets the lock at once
FetchEnter(t, url) ==
    /\ t_pc[t] = "idle"
    /\ ~(ShouldSkip(url) \/ IsPdf(url))
    /\ LockAvailable
    /\ t_url' = [t_url EXCEPT ![t] = Some(url)]
    /\ RateLimitBody(t, lock_waiters)
    /\ UNCHANGED << clock, min_interval >>
    /\ UNCHANGED << parseVars, fetchVars, pipeVars >>

\* fetch(url) reaches "async with self._lock" and has to queue
FetchQueue(t, url) ==
    /\ t_pc[t] = "idle"
    /\ ~(ShouldSkip(url) \/ IsPdf(url))
    /\ ~LockAvailable
    /\ t_url' = [t_url EXCEPT ![t] = Some(url)]
    /\ t_pc' = [t_pc EXCEPT ![t] = "lock_wait"]
    /\ lock_waiters' = Append(lock_waiters, t)
    /\ UNCHANGED << clock, min_interval, last_request, lock_holder,
                    t_last, t_wake, starts, reads >>
    /\ UNCHANGED << parseVars, fetchVars, pipeVars >>

\* the first queued task is woken by release() and takes the lock
LockGranted(t) ==
    /\ t_pc[t] = "lock_wait"
    /\ IsNone(lock_holder)
    /\ lock_waiters /= << >>
    /\ Head(lock_waiters) = t
    /\ UNCHANGED t_url
    /\ RateLimitBody(t, Tail(lock_waiters))
    /\ UNCHANGED << clock, min_interval >>
    /\ UNCHANGED << parseVars, fetchVars, pipeVars >>

\* asyncio.sleep(wait_time) returns; the start time is written and the lock
\* released
SleepReturns(t) ==
    /\ t_pc[t] = "sleep"
    /\ clock >= t_wake[t]
    /\ LET domain == Netloc(Val(t_url[t]))
       IN /\ last_request' = [last_request EXCEPT ![domain] = Some(clock)]
          /\ starts' = [starts EXCEPT ![domain] = Append(@, clock)]
    /\ lock_holder' = None
    /\ t_pc' = [t_pc EXCEPT ![t] = "request"]
    /\ UNCHANGED << clock, min_interval, lock_waiters, t_url, t_last,
                    t_wake, reads >>
    /\ UNCHANGED << parseVars, fetchVars, pipeVars >>

\* the HTTP request of fetch() completes and fetch() returns to its caller;
\* its locals are gone
RequestDone(t) ==
    /\ t_pc[t] = "request"
    /\ t_pc' = [t_pc EXCEPT ![t] = "idle"]
    /\ t_url' = [t_url EXCEPT ![t] = None]
    /\ t_last' = [t_last EXCEPT ![t] = 0]
    /\ t_wake' = [t_wake EXCEPT ![t] = 0]
    /\ UNCHANGED << clock, min_interval, last_request, lock_holder, lock_waiters,
                    starts, reads >>
    /\ UNCHANGED << parseVars, fetchVars, pipeVars >>

\* time passes
Tick ==
    /\ clock < MaxTime
    /\ clock' = clock + 1
    /\ UNCHANGED << min_interval, last_request, lock_holder, lock_waiters,
                    t_pc, t_url, t_last, t_wake, starts, reads >>
    /\ UNCHANGED << parseVars, fetchVars, pipeVars >>

RateNext ==
    \/ \E t \in Tasks, url \in RateUrls : FetchSkipped(t, url)
    \/ \E t \in Tasks, url \in RateUrls : FetchEnter(t, url)
    \/ \E t \in Tasks, url \in RateUrls : FetchQueue(t, url)
    \/ \E t \in Tasks : LockGranted(t)
    \/ \E t \in Tasks : SleepReturns(t)
    \/ \E t \in Tasks : RequestDone(t)
    \/ Tick

SpecRate == RateInit /\ [][RateNext]_vars

----------------------------------------------------------------------------
(* Properties of the rate limiter *)

\* C5: rate limiting.  Of two fetches to one host that pass the limiter one
\* after the other, the second's recorded start time is at least the minimum
\* interval after the first's.
C5_RateLimit ==
    \A h \in Hosts : \A i \in 1..(Len(starts[h]) - 1) :
        starts[h][i + 1] >= starts[h][i] + min_interval

\* two fetches to a.test went through, the second after waiting in sleep
C5_Witness ==
    /\ Len(starts["a.test"]) >= 2
    /\ Len(reads["a.test"]) >= 2
    /\ reads["a.test"][2] = starts["a.test"][1]
    /\ starts["a.test"][2] = starts["a.test"][1] + min_interval
    /\ min_interval = MaxInterval

\* C6: the check-and-update of a host's last-request time is atomic: no two
\* fetches read the same last-request value for a host, any two start times
\* recorded for a host are at least the minimum interval apart, and between a
\* fetch's read and its write nobody else writes the map.
C6_AtomicCheckAndUpdate ==
    /\ \A h \in Hosts : \A i, j \in 1..Len(reads[h]) :
          i /= j => reads[h][i] /= reads[h][j]
    /\ \A h \in Hosts : \A i, j \in 1..Len(starts[h]) :
          i < j => starts[h][j] - starts[h][i] >= min_interval
    /\ \A t \in Tasks :
          t_pc[t] = "sleep" =>
              /\ lock_holder = Some(t)
              /\ LastRequestOf(Netloc(Val(t_url[t]))) = t_last[t]
              /\ \A t2 \in Tasks \ {t} : t_pc[t2] /= "sleep"

\* one fetch sleeps inside the limiter while another fetch to the same host
\* is queued behind it
C6_Witness ==
    \E t1, t2 \in Tasks :
        /\ t1 /= t2
        /\ t_pc[t1] = "sleep"
        /\ t_pc[t2] = "lock_wait"
        /\ Netloc(Val(t_url[t1])) = Netloc(Val(t_url[t2]))
        /\ Len(starts[Netloc(Val(t_url[t1]))]) >= 1

\* some fetch is inside _rate_limit, waiting out the interval, before and
\* after this step
SomeoneWaits == \E t \in Tasks : t_pc[t] = "sleep" /\ t_pc'[t] = "sleep"

\* task t leaves _rate_limit in this step and starts its request
PassesLimiter(t) == t_pc[t] /= "request" /\ t_pc'[t] = "request"

LimiterExclusionStep ==
    /\ SomeoneWaits =>
          /\ last_request' = last_request
          /\ reads' = reads
          /\ starts' = starts
          /\ \A t \in Tasks : ~PassesLimiter(t)
          /\ \A t \in Tasks : t_pc'[t] = "sleep" => t_pc[t] = "sleep"
    /\ \A h \in Hosts :
          last_request'[h] /= last_request[h] =>
              /\ \E t \in Tasks : PassesLimiter(t) /\ Netloc(Val(t_url'[t])) = h
              /\ \A h2 \in Hosts \ {h} : last_request'[h2] = last_request[h2]

\* C30: while a fetch waits out the interval inside _rate_limit no other
\* fetch, to the same host or to another, reads or writes the last-request
\* map, enters the wait or starts its request; at most one fetch is inside
\* at a time; a pass through _rate_limit writes the entry of its own host
\* and no other.
C30_LimiterExclusion ==
    /\ [][LimiterExclusionStep]_vars
    /\ [](\A t1, t2 \in Tasks :
            (t_pc[t1] = "sleep" /\ t_pc[t2] = "sleep") => t1 = t2)
    /\ [](\A t \in Tasks : t_pc[t] = "sleep" => lock_holder = Some(t))

\* a fetch to a.test waits out the interval while a fetch to b.test, whose
\* host was never requested, is queued behind it
C30_Witness ==
    \E t1, t2 \in Tasks :
        /\ t_pc[t1] = "sleep"
        /\ t_url[t1] = Some(UrlA)
        /\ t_pc[t2] = "lock_wait"
        /\ t_url[t2] = Some(UrlB)
        /\ clock > 0
        /\ IsNone(last_request["b.test"])
        /\ ~IsNone(last_request["a.test"])

(***************************************************************************)
(* RateLimitedFetcher.fetch as a function of the URL and of what the       *)
(* network does.  A network behaviour is                                   *)
(*   [connect, status, ctype, read, body]                                  *)
(* connect and read are "ok" or the exception the request, respectively    *)
(* response.text(), ends with: "timeout" asyncio.TimeoutError,             *)
(* "client_error" an aiohttp.ClientError, "error" any other Exception.     *)
(* body is [len, title, text_len]: the length of the decoded text, the     *)
(* <title> element within its first max_content_length characters, and the *)
(* length of the main readable text ContentExtractor finds in it.          *)
(***************************************************************************)
MaxContentLength == 1000000
MIN_CONTENT_LENGTH == 50
ExtractMaxLength == 10000

HtmlTypes == {"text/html", "Text/HTML; charset=UTF-8"}
ContentTypes == HtmlTypes \cup {"application/json", ""}

\* "text/html" in content_type.lower()
IsHtmlTypeMutAny(ctype) == TRUE

IsHtmlType(ctype) == ctype \in HtmlTypes

FetchResult(status, content, title, error, ctype) ==
    [status |-> status, content |-> content, title |-> title,
     error |-> error, content_type |-> ctype]

Returned(result) == [raised |-> FALSE, result |-> Some(result)]
Raised == [raised |-> TRUE, result |-> None]

\* a raw HTML text, kept as its lengths and title; truncation keeps the
\* first max_content_length characters
HtmlText(len, title, text_len) == [len |-> len, title |-> title, text_len |-> text_len]

Truncate(body) ==
    IF body.len > MaxContentLength
    THEN HtmlText(MaxContentLength, body.title, Min(body.text_len, MaxContentLength))
    ELSE body

\* f"HTTP {response.status}"
StatusText(status) ==
    CASE status = 200 -> "200"
      [] status = 404 -> "404"
      [] status = 500 -> "500"
      [] OTHER -> "other"

\* the except clauses of fetch()
FetchExcept(exc) ==
    CASE exc = "timeout" ->
            FetchResult("timeout", None, None, Some(<< "Request timed out" >>), None)
      [] exc = "client_error" ->
            FetchResult("failed", None, None, Some(<< "client error" >>), None)
      [] OTHER ->
            FetchResult("failed", None, None, Some(<< "Unexpected:", "error" >>), None)

\* the try block of fetch(): session.get and the handling of the response
FetchRequest(net) ==
    IF net.connect /= "ok" THEN FetchExcept(net.connect)
    ELSE IF net.status /= 200
    THEN FetchResult("failed", None, None, Some(<< "HTTP", StatusText(net.status) >>), None)
    ELSE IF ~IsHtmlType(net.ctype)
    THEN FetchResult("skipped", None, None,
                     Some(<< "Non-HTML content:", net.ctype >>), Some(net.ctype))
    ELSE IF net.read /= "ok" THEN FetchExcept(net.read)
    ELSE LET content == Truncate(net.body)
         IN FetchResult("success", Some(content), content.title, None, Some(net.ctype))

\* fetch(url): should_skip and is_pdf call urlparse before the try block
Fetch(url, net) ==
    IF UrlParseRaises(url) THEN Raised
    ELSE IF ShouldSkip(url)
    THEN Returned(FetchResult("skipped", None, None,
                              Some(<< "Non-HTML content type (media file)" >>), None))
    ELSE IF IsPdf(url)
    THEN Returned(FetchResult("skipped", None, None,
                              Some(<< "PDF - use pdf_extractor" >>), Some("application/pdf")))
    ELSE Returned(FetchRequest(net))

FetchUrls == {UrlA, UrlB, UrlImg, UrlPdf, UrlBad}
Outcomes == {"ok", "timeout", "client_error", "error"}
HttpStatuses == {200, 404, 500}
Bodies ==
    { HtmlText(0, None, 0), HtmlText(500, Some(<< "A" >>), 60), HtmlText(500, None, 10),
      HtmlText(MaxContentLength + 1, Some(<< "A" >>), 60) }

NetBehaviours ==
    [connect : Outcomes, status : HttpStatuses, ctype : ContentTypes,
     read : Outcomes, body : Bodies]

FetchInit ==
    /\ f_url \in FetchUrls
    /\ f_net \in { Some(n) : n \in NetBehaviours }
    /\ f_state = "ready"
    /\ f_result = None
    /\ f_trace = << >>
    /\ clock \in {0, MaxTime}
    /\ min_interval = 1
    /\ last_request = << >>
    /\ lock_holder = None
    /\ lock_waiters = << >>
    /\ t_pc = << >>
    /\ t_url = << >>
    /\ t_last = << >>
    /\ t_wake = << >>
    /\ starts = << >>
    /\ reads = << >>
    /\ ParseIdle
    /\ PipeIdle

\* fetch(url) gets as far as "await self._rate_limit(domain)" and the
\* request only when urlparse accepts the URL and neither extension test
\* returns early
ReachesNetwork(url) == ~UrlParseRaises(url) /\ ~ShouldSkip(url) /\ ~IsPdf(url)

\* self._domain_last_request.get(domain, 0) on a map kept as a function
\* whose domain is the set of keys
LastRequestGet(map, domain) ==
    IF domain \in DOMAIN map /\ ~IsNone(map[domain]) THEN Val(map[domain]) ELSE 0

\* fetch() goes on to "await response.text()" only for a 200 answer of an
\* HTML content type
AwaitsBody(net) == net.connect = "ok" /\ net.status = 200 /\ IsHtmlType(net.ctype)

\* The call fetch(f_url) against the network behaviour f_net, with no other
\* call in flight, one step per run between two suspensions.  The caller is
\* task 0 of the lock.
\*
\* fetch() from its entry to its first suspension or early return: the
\* extension tests, then _rate_limit takes the free lock, reads the map and
\* either suspends in asyncio.sleep with the lock held and the map not yet
\* written, or writes the time, releases the lock and suspends in
\* session.get
FetchBegin ==
    /\ f_state = "ready"
    /\ IF ~ReachesNetwork(f_url)
       THEN LET r == Fetch(f_url, Val(f_net))
            IN /\ f_state' = IF r.raised THEN "raised" ELSE "returned"
               /\ f_result' = r.result
               /\ UNCHANGED << last_request, lock_holder, f_trace >>
       ELSE LET domain == Netloc(f_url)
                wait == WaitTime(clock, LastRequestGet(last_request, domain))
            IN IF wait > 0
               THEN /\ f_state' = "sleep"
                    /\ lock_holder' = Some(0)
                    /\ f_trace' = f_trace \o << "rate_limit" >>
                    /\ UNCHANGED << last_request, f_result >>
               ELSE /\ f_state' = "request"
                    /\ last_request' = (domain :> Some(clock)) @@ last_request
                    /\ f_trace' = f_trace \o << "rate_limit", "request" >>
                    /\ UNCHANGED << lock_holder, f_result >>
    /\ UNCHANGED << f_url, f_net, clock, min_interval, lock_waiters,
                    t_pc, t_url, t_last, t_wake, starts, reads >>
    /\ UNCHANGED << parseVars, pipeVars >>

\* asyncio.sleep(wait_time) returns after the wait: _rate_limit writes the
\* loop time, releases the lock, and fetch() suspends in session.get
FetchWake ==
    /\ f_state = "sleep"
    /\ LET domain == Netloc(f_url)
           wait == WaitTime(clock, LastRequestGet(last_request, domain))
       IN /\ clock' = clock + wait
          /\ last_request' = (domain :> Some(clock')) @@ last_request
    /\ lock_holder' = None
    /\ f_state' = "request"
    /\ f_trace' = f_trace \o << "request" >>
    /\ UNCHANGED << f_url, f_net, f_result, min_interval, lock_waiters,
                    t_pc, t_url, t_last, t_wake, starts, reads >>
    /\ UNCHANGED << parseVars, pipeVars >>

\* session.get completes or fails: fetch() returns, or suspends in
\* response.text()
FetchResponse ==
    /\ f_state = "request"
    /\ IF AwaitsBody(Val(f_net))
       THEN /\ f_state' = "read"
            /\ UNCHANGED f_result
       ELSE /\ f_state' = "returned"
            /\ f_result' = Fetch(f_url, Val(f_net)).result
    /\ UNCHANGED << f_url, f_net, f_trace >>
    /\ UNCHANGED << parseVars, rateVars, pipeVars >>

\* response.text() completes or fails: fetch() returns
FetchBody ==
    /\ f_state = "read"
    /\ f_state' = "returned"
    /\ f_result' = Fetch(f_url, Val(f_net)).result
    /\ UNCHANGED << f_url, f_net, f_trace >>
    /\ UNCHANGED << parseVars, rateVars, pipeVars >>

FetchNext ==
    \/ FetchBegin
    \/ FetchWake
    \/ FetchResponse
    \/ FetchBody

SpecFetch == FetchInit /\ [][FetchNext]_vars

----------------------------------------------------------------------------
(* Properties of fetch() *)

FetchStatuses == {"success", "failed", "timeout", "skipped"}

\* C7: for every URL and every outcome of the network, fetch() returns a
\* result whose status is one of success, failed, timeout, skipped, and
\* raises no exception to its caller.
C7_FetchNeverRaises ==
    f_state \notin {"ready", "sleep", "request", "read"} =>
        /\ f_state = "returned"
        /\ ~IsNone(f_result)
        /\ Val(f_result).status \in FetchStatuses

\* C19: a call of fetch() for a URL whose path ends in a media extension
\* returns a result of status skipped, and in that call no request is issued,
\* _rate_limit is not entered, no time is spent waiting and the per-host
\* last-request map stays as it was, whatever the network would have done.
C19_MediaSkipFrame ==
    [][(f_state = "ready" /\ PathSuffixLower(f_url) \in SKIP_EXTENSIONS) =>
          /\ f_state' = "returned"
          /\ ~IsNone(f_result')
          /\ Val(f_result').status = "skipped"
          /\ Val(f_result').error = Some(<< "Non-HTML content type (media file)" >>)
          /\ f_trace' = f_trace
          /\ last_request' = last_request
          /\ clock' = clock]_vars

\* fetch() returned for the picture URL although the host would have
\* answered 200 with an HTML page
C19_Witness ==
    /\ f_state = "returned"
    /\ f_url = UrlImg
    /\ Val(f_net).connect = "ok"
    /\ Val(f_net).status = 200
    /\ IsHtmlType(Val(f_net).ctype)
    /\ Val(f_result).status = "skipped"
    /\ f_trace = << >>
    /\ DOMAIN last_request = {}

\* fetch() of a page went through the limiter and issued its request
C19_WitnessFetched ==
    /\ f_state = "returned"
    /\ f_url = UrlA
    /\ f_trace = << "rate_limit", "request" >>
    /\ last_request["a.test"] = Some(clock)

(***************************************************************************)
(* Database: the tables links, link_tags and processing_log, and the       *)
(* operations the pipeline uses.  The row id of a link is its index in the *)
(* sequence links (AUTOINCREMENT, and nothing deletes rows).               *)
(***************************************************************************)
Range(seq) == { seq[i] : i \in 1..Len(seq) }

\* a str is falsy when it is None or empty
Truthy(len_opt) == ~IsNone(len_opt) /\ Val(len_opt) > 0
TruthyText(text_opt) == ~IsNone(text_opt) /\ Val(text_opt) /= << >>

Timestamp == Some("ts")

\* link_exists
LinkExistsMutFirstRow(ls, url) == Len(ls) > 0 /\ ls[1].url = url

LinkExistsMutNever(ls, url) == FALSE
LinkExists(ls, url) == \E i \in 1..Len(ls) : ls[i].url = url

\* the row insert_link writes
NewRecord(link) ==
    [url |-> link.url, title |-> link.title, description |-> link.description,
     domain |-> Netloc(link.url), source_date |-> link.source_date,
     source_file |-> link.source_file, parent_url |-> link.parent_url,
     indent_level |-> link.indent_level,
     page_title |-> None, page_content |-> None,
     fetch_status |-> "not_fetched", fetch_error |-> None, fetched_at |-> None,
     summary |-> None, summarized_at |-> None, summarizer_model |-> None]

\* insert_link: urlparse() may raise, and so does the INSERT when the UNIQUE
\* constraint on url fails; otherwise the row is appended
InsertLinkRaises(ls, link) ==
    UrlParseRaises(link.url) \/ \E i \in 1..Len(ls) : ls[i].url = link.url

InsertLinkMutPrepend(ls, link) == << NewRecord(link) >> \o ls

InsertLink(ls, link) == Append(ls, NewRecord(link))

\* update_fetch_result
UpdateFetchResult(ls, id, status, content, page_title, error) ==
    [ls EXCEPT ![id].fetch_status = status,
               ![id].page_content = content,
               ![id].page_title = page_title,
               ![id].fetch_error = error,
               ![id].fetched_at = Timestamp]

\* update_summary
UpdateSummary(ls, id, summary, model) ==
    [ls EXCEPT ![id].summary = Some(summary),
               ![id].summarizer_model = Some(model),
               ![id].summarized_at = Timestamp]

\* add_tag: INSERT OR REPLACE on the key (link_id, tag_id)
AddTag(lt, id, tag, confidence, source) ==
    { a \in lt : ~(a.link_id = id /\ a.tag.name = tag.name) }
    \cup { [link_id |-> id, tag |-> tag, confidence |-> confidence, source |-> source] }

\* reset_fetch_status
ResetFetchStatusMutStatusOnly(ls, id) ==
    [ls EXCEPT ![id].fetch_status = "not_fetched"]

ResetFetchStatus(ls, id) ==
    [ls EXCEPT ![id].fetch_status = "not_fetched",
               ![id].page_content = None,
               ![id].page_title = None,
               ![id].fetch_error = None,
               ![id].fetched_at = None]

\* ORDER BY source_date DESC LIMIT n over the rows of `among`: any sequence
\* of n distinct rows, newest first, that leaves out no newer row.  Rows of
\* equal source_date come in an order SQLite does not promise.
OrderedRowsMutAnyOrder(ls, among, n) ==
    { b \in [1..n -> among] : \A i, j \in 1..n : i < j => b[i] /= b[j] }

OrderedRows(ls, among, n) ==
    { b \in [1..n -> among] :
        /\ \A i, j \in 1..n :
              i < j => b[i] /= b[j] /\ ls[b[i]].source_date >= ls[b[j]].source_date
        /\ \A e \in among \ Range(b) :
              \A i \in 1..n : ls[e].source_date <= ls[b[i]].source_date }

\* get_unfetched_links
UnfetchedMutAll(ls) == 1..Len(ls)

UnfetchedMutRetry(ls) ==
    { i \in 1..Len(ls) : ls[i].fetch_status \in {"not_fetched", "failed", "timeout"} }

Unfetched(ls) == { i \in 1..Len(ls) : ls[i].fetch_status = "not_fetched" }

GetUnfetchedLinks(ls, limit) ==
    OrderedRows(ls, Unfetched(ls), Min(limit, Cardinality(Unfetched(ls))))

\* get_unsummarized_links: WHERE fetch_status != 'not_fetched' AND summary IS NULL
UnsummarizedMutNoStatus(ls) ==
    { i \in 1..Len(ls) : IsNone(ls[i].summary) }

UnsummarizedMutNoNull(ls) ==
    { i \in 1..Len(ls) : ls[i].fetch_status /= "not_fetched" }

Unsummarized(ls) ==
    { i \in 1..Len(ls) : ls[i].fetch_status /= "not_fetched" /\ IsNone(ls[i].summary) }

GetUnsummarizedLinks(ls, limit) ==
    OrderedRows(ls, Unsummarized(ls), Min(limit, Cardinality(Unsummarized(ls))))

\* get_untagged_links: "if limit:" adds the LIMIT clause, so 0 means no limit
UntaggedMutNoTagCheck(ls, lt) ==
    { i \in 1..Len(ls) : ls[i].fetch_status /= "not_fetched" }

Untagged(ls, lt) ==
    { i \in 1..Len(ls) :
        /\ ls[i].fetch_status /= "not_fetched"
        /\ ~\E a \in lt : a.link_id = i }

GetUntaggedLinks(ls, lt, limit) ==
    OrderedRows(ls, Untagged(ls, lt),
                IF limit = 0 THEN Cardinality(Untagged(ls, lt))
                ELSE Min(limit, Cardinality(Untagged(ls, lt))))

\* reset_summary and clear_tags_for_link: public operations of Database that
\* no command, stage or route calls; they are applied from outside, between
\* commands
ResetSummary(ls, id) ==
    [ls EXCEPT ![id].summary = None,
               ![id].summarizer_model = None,
               ![id].summarized_at = None]

ClearTagsForLink(lt, id) == { a \in lt : a.link_id /= id }

\* clear_all_tags: DELETE FROM link_tags
ClearAllTags(lt) == {}

\* get_all_links_with_content: WHERE fetch_status != 'not_fetched'; "if
\* limit:" adds the LIMIT clause, so None and 0 mean no limit
WithContent(ls) == { i \in 1..Len(ls) : ls[i].fetch_status /= "not_fetched" }

GetAllLinksWithContent(ls, limit) ==
    OrderedRows(ls, WithContent(ls),
                IF IsNone(limit) \/ Val(limit) = 0 THEN Cardinality(WithContent(ls))
                ELSE Min(Val(limit), Cardinality(WithContent(ls))))

\* get_empty_content_links
EmptyContentMutAnyStatus(ls, min_length) ==
    { i \in 1..Len(ls) :
        /\ ls[i].fetch_status /= "not_fetched"
        /\ (IsNone(ls[i].page_content) \/ Val(ls[i].page_content) < min_length) }

EmptyContent(ls, min_length) ==
    { i \in 1..Len(ls) :
        /\ ls[i].fetch_status = "success"
        /\ (IsNone(ls[i].page_content) \/ Val(ls[i].page_content) < min_length) }

GetEmptyContentLinks(ls, limit, min_length) ==
    OrderedRows(ls, EmptyContent(ls, min_length),
                Min(limit, Cardinality(EmptyContent(ls, min_length))))

\* file_needs_processing
FileNeedsProcessingMutAlways(lg, file, hash) == TRUE
FileNeedsProcessingMutPathOnly(lg, file, hash) == IsNone(lg[file])
FileNeedsProcessing(lg, file, hash) ==
    IF IsNone(lg[file]) THEN TRUE ELSE Val(lg[file]) /= hash

\* mark_file_processed: INSERT OR REPLACE on source_file
MarkFileProcessed(lg, file, hash) == [lg EXCEPT ![file] = Some(hash)]

(***************************************************************************)
(* PDFExtractor, ContentExtractor, BedrockSummarizer and LLMTagger as      *)
(* functions of what the outside world does.                               *)
(***************************************************************************)
PdfMaxContentLength == 50000

\* PDFExtractor.extract; a behaviour is [download, parse, text_len, title]:
\* download is "ok" or what went wrong in _download ("http_404", "http_500",
\* "client_error", "timeout"), which _download turns into None; parse is
\* "ok" or the message of the exception _extract_text raised
PdfExtract(net) ==
    IF net.download /= "ok"
    THEN FetchResult("failed", None, None, Some(<< "Failed to download PDF" >>), None)
    ELSE IF net.parse /= "ok"
    THEN FetchResult("failed", None, None, Some(<< net.parse >>), None)
    ELSE FetchResult("success", Some(Min(net.text_len, PdfMaxContentLength)),
                     net.title, None, None)

\* ContentExtractor.extract: the first candidate of at least
\* MIN_CONTENT_LENGTH characters, cut to max_length; "" when there is none
ExtractContent(html) ==
    IF html.text_len >= MIN_CONTENT_LENGTH
    THEN Min(html.text_len, ExtractMaxLength)
    ELSE 0

\* _create_metadata_summary: Some(parts), to be joined by " - ", or None
CreateMetadataSummaryMutTitleOnly(link) ==
    IF TruthyText(link.title) THEN Some(<< Val(link.title) >>) ELSE None

CreateMetadataSummary(link) ==
    LET p1 == IF TruthyText(link.page_title) THEN << Val(link.page_title) >> ELSE << >>
        p2 == IF TruthyText(link.description) /\ link.description /= link.page_title
              THEN Append(p1, Val(link.description)) ELSE p1
        p3 == IF TruthyText(link.title) /\ Val(link.title) \notin Range(p2)
              THEN Append(p2, Val(link.title)) ELSE p2
    IN IF p3 = << >> THEN None ELSE Some(p3)

ModelName == "anthropic.claude"
LlmSummary == << << "llm", "summary" >> >>

\* the body of the loop of _summarize_links for row id; outcome is what
\* summarizer.summarize does when it is called: "ok" or "error"
SummarizeOne(ls, id, outcome) ==
    IF ~Truthy(ls[id].page_content)
    THEN IF IsNone(CreateMetadataSummary(ls[id])) THEN ls
         ELSE UpdateSummary(ls, id, Val(CreateMetadataSummary(ls[id])), "metadata")
    ELSE IF outcome = "ok" THEN UpdateSummary(ls, id, LlmSummary, ModelName)
    ELSE ls

SummarizeEvent(ls, id, outcome) ==
    IF ~Truthy(ls[id].page_content)
    THEN IF IsNone(CreateMetadataSummary(ls[id])) THEN "sum_none" ELSE "sum_meta"
    ELSE IF outcome = "ok" THEN "sum_ok" ELSE "sum_fail"

Tag(name, category) == [name |-> name, category |-> category]

\* the tag vocabulary
AVAILABLE_TAGS ==
    [programming_language |->
        {"python", "rust", "typescript", "javascript", "lisp", "common-lisp",
         "clojure", "scheme", "haskell", "go", "c", "cpp", "nix", "sql", "swift",
         "java", "ruby", "elixir", "zig"},
     technical_topic |->
        {"ai", "llm", "compilers", "github-repo", "database", "devops", "web-dev",
         "academic-paper", "tutorial", "cli-tool", "distributed-systems",
         "security", "emulator"},
     culture |->
        {"tv", "movie", "fiction-book", "nonfiction-book", "music", "news",
         "politics", "podcast", "video", "gaming", "social-media"}]

\* A response of the model is [invoke, json, items]: invoke is "ok" or
\* "error" (the Bedrock call raised); json is "ok", "invalid" (json.loads
\* raises JSONDecodeError) or "not_object" (the document is no object, so
\* data.get raises AttributeError); items are the entries of "tags", each
\* [name, category, conf] with conf [kind, value]: kind "num" a number
\* (value in hundredths), "text" a string float() rejects with ValueError,
\* "null" a JSON null float() rejects with TypeError.
TagItem(name, category, kind, value) ==
    [name |-> name, category |-> category, conf |-> [kind |-> kind, value |-> value]]

Parsed(tags, raised, logged) == [tags |-> tags, raised |-> raised, logged |-> logged]

\* the for loop of _parse_response: ValueError is caught around the loop, so
\* the tags appended before it stay in the returned list; TypeError is not
\* caught there and leaves _parse_response
RECURSIVE ParseItems(_, _)
ParseItems(items, acc) ==
    IF items = << >> THEN Parsed(acc, FALSE, FALSE)
    ELSE LET item == Head(items)
         IN IF item.conf.kind = "text" THEN Parsed(acc, FALSE, TRUE)
            ELSE IF item.conf.kind = "null" THEN Parsed(<< >>, TRUE, FALSE)
            ELSE IF item.category \notin DOMAIN AVAILABLE_TAGS
            THEN ParseItems(Tail(items), acc)
            ELSE IF item.name \notin AVAILABLE_TAGS[item.category]
            THEN ParseItems(Tail(items), acc)
            ELSE ParseItems(Tail(items),
                            Append(acc, [tag |-> Tag(item.name, item.category),
                                         confidence |-> Min(item.conf.value, 100)]))

\* _parse_response
ParseResponse(resp) ==
    IF resp.json = "invalid" THEN Parsed(<< >>, FALSE, TRUE)
    ELSE IF resp.json = "not_object" THEN Parsed(<< >>, TRUE, FALSE)
    ELSE ParseItems(resp.items, << >>)

\* LLMTagger.tag: an exception of the model call or one that leaves
\* _parse_response is caught and yields the empty list
TaggerTag(resp) ==
    IF resp.invoke /= "ok" THEN << >>
    ELSE IF ParseResponse(resp).raised THEN << >>
    ELSE ParseResponse(resp).tags

\* the tagger logged an error for this response
TaggerFailed(resp) ==
    \/ resp.invoke /= "ok"
    \/ ParseResponse(resp).raised
    \/ ParseResponse(resp).logged

\* for tag, confidence in tags: add_tag(link.id, tag, confidence, source="llm")
RECURSIVE AddTags(_, _, _)
AddTags(lt, id, tags) ==
    IF tags = << >> THEN lt
    ELSE AddTags(AddTag(lt, id, Head(tags).tag, Head(tags).confidence, "llm"),
                 id, Tail(tags))

(***************************************************************************)
(* The source tree and LinkExtractorPipeline.  One command runs at a time: *)
(* run() (the "extract" command) or one of the manual commands "refetch"   *)
(* and "retag"; between commands the notes may be edited.  Spec has the    *)
(* runs, the edits and refetch; SpecCommands has the runs and both manual  *)
(* commands and the two Database operations no command calls.             *)
(***************************************************************************)
File1 == "2025-03-15.md"
File2 == "2025-03-14.md"
Files == {File1, File2}

\* _extract_date_from_path: the date in the file name
FileDate(file) == IF file = File1 THEN 20250315 ELSE 20250314

\* DailyNotesScanner.scan without a date range: newest first
Scan == << File1, File2 >>

TextNone == [has_section |-> FALSE, lines |-> << >>]

TextAP ==
    [has_section |-> TRUE,
     lines |-> << Line(<< >>, TRUE, << Md("A", UrlA) >>),
                  Line(Spaces4, TRUE, << Word("note"), Dash, Bare(UrlPdf) >>) >>]

TextAAP ==
    [has_section |-> TRUE,
     lines |-> << Line(<< >>, TRUE, << Md("A", UrlA), Dash, Word("changed") >>),
                  Line(Spaces4, TRUE, << Md("A", UrlA) >>),
                  Line(Tab, TRUE, << Bare(UrlPdf) >>) >>]

\* a bare URL that urlparse() rejects
TextBad ==
    [has_section |-> TRUE, lines |-> << Line(<< >>, TRUE, << Bare(UrlBad) >>) >>]

TextA ==
    [has_section |-> TRUE, lines |-> << Line(<< >>, TRUE, << Md("A", UrlA) >>) >>]

TextP ==
    [has_section |-> TRUE, lines |-> << Line(<< >>, TRUE, << Bare(UrlPdf) >>) >>]

Texts == << TextNone, TextAP, TextAAP, TextBad, TextA, TextP >>

\* the texts a file of the model may hold
FileTexts(file) == IF file = File1 THEN {TextNone, TextAP, TextAAP}
                   ELSE {TextNone, TextA, TextBad}

\* _file_hash: the MD5 digest of the bytes, taken as collision-free: the
\* digest of a text is its number in Texts
FileHash(text) == CHOOSE k \in 1..Len(Texts) : Texts[k] = text

\* the source trees of the model
Trees == { t \in [Files -> Range(Texts)] : \A f \in Files : t[f] \in FileTexts(f) }

MaxBatch == 2

FullRun == [skip_existing |-> TRUE, fetch |-> TRUE, summarize |-> TRUE, tag |-> TRUE]
RunOptions ==
    { FullRun,
      [FullRun EXCEPT !.skip_existing = FALSE],
      [FullRun EXCEPT !.fetch = FALSE, !.summarize = FALSE, !.tag = FALSE] }

AllStages(o) == o.fetch /\ o.summarize /\ o.tag

\* what the network does for the links of the model
HtmlOk(title, text_len) ==
    [connect |-> "ok", status |-> 200, ctype |-> "text/html", read |-> "ok",
     body |-> HtmlText(500, title, text_len)]

PipeNets ==
    { HtmlOk(Some(<< "A" >>), 60),
      HtmlOk(None, 10),
      [HtmlOk(None, 0) EXCEPT !.connect = "timeout"],
      [HtmlOk(None, 0) EXCEPT !.ctype = "application/json"],
      [HtmlOk(None, 0) EXCEPT !.ctype = "application/json", !.read = "timeout"] }

PdfNet(download, parse, text_len, title) ==
    [download |-> download, parse |-> parse, text_len |-> text_len, title |-> title]

PipePdfNets ==
    { PdfNet("ok", "ok", 60, None),
      PdfNet("timeout", "ok", 0, None) }

\* the per-operation timeout of the GET (aiohttp.ClientTimeout) expired
HtmlTimedOut(net) ==
    \/ net.connect = "timeout"
    \/ /\ net.connect = "ok"
       /\ net.status = 200
       /\ IsHtmlType(net.ctype)
       /\ net.read = "timeout"

\* the per-operation timeout of the PDF download expired
PdfTimedOut(net) == net.download = "timeout"

SummarizerOutcomes == {"ok", "error"}

PipeTagResponses ==
    { [invoke |-> "error", json |-> "ok", items |-> << >>],
      [invoke |-> "ok", json |-> "ok",
       items |-> << TagItem("python", "programming_language", "num", 90) >>],
      [invoke |-> "ok", json |-> "ok",
       items |-> << TagItem("python", "programming_language", "num", 90),
                    TagItem("rust", "programming_language", "text", 0) >>] }

PipeInit ==
    /\ tree \in Trees
    /\ log = [f \in Files |-> None]
    /\ links = << >>
    /\ link_tags = {}
    /\ batch_size \in 0..MaxBatch
    /\ pc = "idle"
    /\ opts = FullRun
    /\ files = << >>
    /\ fi = 0
    /\ parsed = << >>
    /\ li = 0
    /\ batch = << >>
    /\ bi = 0
    /\ ev = "idle"
    /\ repeat = FALSE
    /\ tag_tried = {}
    /\ resumed = FALSE
    /\ ParseIdle
    /\ RateIdle
    /\ FetchIdle

\* the state of self.fetcher the fetch stage works on, and the rest
fetcherVars == << clock, last_request, lock_holder, f_state, f_net >>
offVars == << parseVars, min_interval, lock_waiters, t_pc, t_url, t_last, t_wake,
              starts, reads, f_url, f_result, f_trace >>
others == << fetcherVars, offVars >>

\* the pipeline object and its fetcher are gone with the command; the next
\* command builds a new fetcher (empty map, free lock) on a new event loop
FetcherDiscarded ==
    /\ clock' = 0
    /\ last_request' = << >>
    /\ lock_holder' = None
    /\ f_state' = "idle"
    /\ f_net' = None

\* the command ends: its locals are gone
CommandEnds ==
    /\ pc' = "idle"
    /\ opts' = FullRun
    /\ files' = << >>
    /\ fi' = 0
    /\ parsed' = << >>
    /\ li' = 0
    /\ batch' = << >>
    /\ bi' = 0
    /\ repeat' = FALSE
    /\ resumed' = FALSE

\* the notes are edited between two commands
EditFile(file, text) ==
    /\ pc = "idle"
    /\ text /= tree[file]
    /\ tree' = [tree EXCEPT ![file] = text]
    /\ ev' = "idle"
    /\ UNCHANGED << log, links, link_tags, batch_size, pc, opts, files, fi, parsed,
                    li, batch, bi, repeat, resumed, tag_tried, others >>

\* batch_size is changed in the configuration file between two commands
EditConfig(n) ==
    /\ pc = "idle"
    /\ n /= batch_size
    /\ batch_size' = n
    /\ ev' = "idle"
    /\ UNCHANGED << tree, log, links, link_tags, pc, opts, files, fi, parsed,
                    li, batch, bi, repeat, resumed, tag_tried, others >>

\* run(): files = self.scanner.scan(...)
StartRun(o) ==
    /\ pc = "idle"
    /\ pc' = "extract"
    /\ opts' = o
    /\ files' = Scan
    /\ fi' = 1
    /\ ev' = "start"
    /\ repeat' = (ev = "full_run_done" /\ AllStages(o))
    /\ resumed' = (ev = "interrupt")
    /\ UNCHANGED << tree, log, links, link_tags, batch_size, parsed, li, batch, bi,
                    tag_tried, others >>

\* run(): the head of "for file_path in files": hash, change check, parse
ExtractFile ==
    /\ pc = "extract"
    /\ fi <= Len(files)
    /\ LET file == files[fi]
           hash == FileHash(tree[file])
       IN IF opts.skip_existing /\ ~FileNeedsProcessing(log, file, hash)
          THEN /\ fi' = fi + 1
               /\ ev' = "skip_file"
               /\ UNCHANGED << pc, parsed, li >>
          ELSE /\ parsed' = ParseFile(tree[file], FileDate(file), file)
               /\ li' = 1
               /\ pc' = "insert"
               /\ ev' = "parse"
               /\ UNCHANGED fi
    /\ UNCHANGED << tree, log, links, link_tags, batch_size, opts, files, batch, bi,
                    repeat, resumed, tag_tried, others >>

\* run(): the body of "for link in links"
InsertNext ==
    /\ pc = "insert"
    /\ li <= Len(parsed)
    /\ LET link == parsed[li]
       IN IF LinkExists(links, link.url)
          THEN /\ li' = li + 1
               /\ ev' = "dup"
               /\ UNCHANGED << links, pc, opts, files, fi, parsed, batch, bi, repeat, resumed >>
          ELSE IF InsertLinkRaises(links, link)
          THEN /\ CommandEnds
               /\ ev' = "crash"
               /\ UNCHANGED links
          ELSE /\ links' = InsertLink(links, link)
               /\ li' = li + 1
               /\ ev' = "insert"
               /\ UNCHANGED << pc, opts, files, fi, parsed, batch, bi, repeat, resumed >>
    /\ UNCHANGED << tree, log, link_tags, batch_size, tag_tried, others >>

\* run(): self.db.mark_file_processed(str(file_path), file_hash)
FileDone ==
    /\ pc = "insert"
    /\ li > Len(parsed)
    /\ log' = MarkFileProcessed(log, files[fi], FileHash(tree[files[fi]]))
    /\ fi' = fi + 1
    /\ parsed' = << >>
    /\ li' = 0
    /\ pc' = "extract"
    /\ ev' = "mark"
    /\ UNCHANGED << tree, links, link_tags, batch_size, opts, files, batch, bi,
                    repeat, resumed, tag_tried, others >>

\* the process is killed while run() is in its extraction loop: nothing is
\* rolled back, every insert_link and mark_file_processed has committed
Interrupt ==
    /\ pc \in {"extract", "insert"}
    /\ CommandEnds
    /\ ev' = "interrupt"
    /\ UNCHANGED << tree, log, links, link_tags, batch_size, tag_tried, others >>

\* run(): "if fetch: await self._fetch_links()" up to the query
FetchStart ==
    /\ pc = "extract"
    /\ fi > Len(files)
    /\ pc' = "fetch"
    /\ bi' = 1
    /\ ev' = "fetch_start"
    /\ resumed' = FALSE
    /\ IF opts.fetch
       THEN batch' \in GetUnfetchedLinks(links, batch_size)
       ELSE batch' = << >>
    /\ UNCHANGED << tree, log, links, link_tags, batch_size, opts, files, fi, parsed,
                    li, repeat, tag_tried, others >>

\* loop time that went by since the command started, when the fetch stage
\* first asks for it
PipeElapsed == {0, MaxTime}

\* _fetch_links, an HTML link: fetch() runs up to its first suspension,
\* inside _rate_limit (asyncio.sleep, lock held, map not yet written) or,
\* with no wait, in session.get after the map was written
PipeRateLimit(elapsed) ==
    /\ pc = "fetch"
    /\ bi <= Len(batch)
    /\ f_state = "idle"
    /\ ReachesNetwork(links[batch[bi]].url)
    /\ LET domain == Netloc(links[batch[bi]].url)
           now == Min(clock + elapsed, MaxTime)
           wait == WaitTime(now, LastRequestGet(last_request, domain))
       IN /\ clock' = now
          /\ IF wait > 0
             THEN /\ f_state' = "sleep"
                  /\ lock_holder' = Some(0)
                  /\ UNCHANGED last_request
             ELSE /\ f_state' = "request"
                  /\ last_request' = (domain :> Some(now)) @@ last_request
                  /\ UNCHANGED lock_holder
    /\ ev' = "rate_limit"
    /\ UNCHANGED << tree, log, links, link_tags, batch_size, pc, opts, files, fi,
                    parsed, li, batch, bi, repeat, resumed, tag_tried, f_net, offVars >>

\* asyncio.sleep returns: the map is written, the lock released, and fetch()
\* suspends in session.get
PipeWake ==
    /\ pc = "fetch"
    /\ f_state = "sleep"
    /\ LET domain == Netloc(links[batch[bi]].url)
           wait == WaitTime(clock, LastRequestGet(last_request, domain))
       IN /\ clock' = clock + wait
          /\ last_request' = (domain :> Some(clock')) @@ last_request
    /\ lock_holder' = None
    /\ f_state' = "request"
    /\ ev' = "wake"
    /\ UNCHANGED << tree, log, links, link_tags, batch_size, pc, opts, files, fi,
                    parsed, li, batch, bi, repeat, resumed, tag_tried, f_net, offVars >>

\* session.get answered 200 with an HTML content type: fetch() suspends in
\* response.text()
PipeResponse(net) ==
    /\ pc = "fetch"
    /\ f_state = "request"
    /\ AwaitsBody(net)
    /\ f_state' = "read"
    /\ f_net' = Some(net)
    /\ ev' = "response"
    /\ UNCHANGED << tree, log, links, link_tags, batch_size, pc, opts, files, fi,
                    parsed, li, batch, bi, repeat, resumed, tag_tried,
                    clock, last_request, lock_holder, offVars >>

\* fetch() is at the point where it returns (or raises) for network
\* behaviour net: at its entry for a URL it does not request, in session.get
\* for an answer it does not read, in response.text() otherwise
FetchReturns(net) ==
    \/ f_state = "idle" /\ ~ReachesNetwork(links[batch[bi]].url)
    \/ f_state = "request" /\ ~AwaitsBody(net)
    \/ f_state = "read" /\ f_net = Some(net)

\* _fetch_links: the body of "for link in links" for an HTML link, from the
\* return of fetch() to the commit of update_fetch_result
FetchHtml(net) ==
    /\ pc = "fetch"
    /\ bi <= Len(batch)
    /\ ~IsPdf(links[batch[bi]].url)
    /\ FetchReturns(net)
    /\ LET r == Fetch(links[batch[bi]].url, net)
       IN IF r.raised
          THEN /\ CommandEnds
               /\ FetcherDiscarded
               /\ ev' = "crash"
               /\ UNCHANGED links
          ELSE LET result == Val(r.result)
                   content == IF ~IsNone(result.content) /\ Val(result.content).len > 0
                              THEN Some(ExtractContent(Val(result.content)))
                              ELSE None
               IN /\ links' = UpdateFetchResult(links, batch[bi], result.status,
                                                content, result.title, result.error)
                  /\ bi' = bi + 1
                  /\ ev' = IF ReachesNetwork(links[batch[bi]].url) /\ HtmlTimedOut(net)
                           THEN "fetch_timeout" ELSE "fetched"
                  /\ f_state' = "idle"
                  /\ f_net' = None
                  /\ UNCHANGED << pc, opts, files, fi, parsed, li, batch, repeat, resumed,
                                  clock, last_request, lock_holder >>
    /\ UNCHANGED << tree, log, link_tags, batch_size, tag_tried, offVars >>

\* _fetch_links: the body of "for link in links" for a PDF link
FetchPdf(net) ==
    /\ pc = "fetch"
    /\ bi <= Len(batch)
    /\ IsPdf(links[batch[bi]].url)
    /\ LET result == PdfExtract(net)
       IN links' = UpdateFetchResult(links, batch[bi], result.status,
                                     result.content, result.title, result.error)
    /\ bi' = bi + 1
    /\ ev' = IF PdfTimedOut(net) THEN "fetch_timeout" ELSE "fetched"
    /\ UNCHANGED << tree, log, link_tags, batch_size, pc, opts, files, fi, parsed, li,
                    batch, repeat, resumed, tag_tried, others >>

\* run(): "if summarize: await self._summarize_links()" up to the query
SummarizeStart ==
    /\ pc = "fetch"
    /\ bi > Len(batch)
    /\ pc' = "summarize"
    /\ bi' = 1
    /\ ev' = "summarize_start"
    /\ IF opts.summarize
       THEN batch' \in GetUnsummarizedLinks(links, batch_size)
       ELSE batch' = << >>
    /\ UNCHANGED << tree, log, links, link_tags, batch_size, opts, files, fi, parsed,
                    li, repeat, resumed, tag_tried, others >>

\* _summarize_links: the body of "for link in links"
SummarizeLink(outcome) ==
    /\ pc = "summarize"
    /\ bi <= Len(batch)
    /\ links' = SummarizeOne(links, batch[bi], outcome)
    /\ ev' = SummarizeEvent(links, batch[bi], outcome)
    /\ bi' = bi + 1
    /\ UNCHANGED << tree, log, link_tags, batch_size, pc, opts, files, fi, parsed, li,
                    batch, repeat, resumed, tag_tried, others >>

\* run(): "if tag: await self._tag_links()" up to the query
TagStart ==
    /\ pc = "summarize"
    /\ bi > Len(batch)
    /\ pc' = "tag"
    /\ bi' = 1
    /\ ev' = "tag_start"
    /\ IF opts.tag
       THEN batch' \in GetUntaggedLinks(links, link_tags, batch_size)
       ELSE batch' = << >>
    /\ UNCHANGED << tree, log, links, link_tags, batch_size, opts, files, fi, parsed,
                    li, repeat, resumed, tag_tried, others >>

\* _tag_links: the body of "for i, link in enumerate(links)"
TagLink(resp) ==
    /\ pc = "tag"
    /\ bi <= Len(batch)
    /\ link_tags' = AddTags(link_tags, batch[bi], TaggerTag(resp))
    /\ ev' = IF TaggerFailed(resp) THEN "tag_fail" ELSE "tag_ok"
    /\ bi' = bi + 1
    /\ tag_tried' = tag_tried \cup {batch[bi]}
    /\ UNCHANGED << tree, log, links, batch_size, pc, opts, files, fi, parsed, li,
                    batch, repeat, resumed, others >>

\* run(): get_stats, the log line, and the return
FinishRun ==
    /\ pc = "tag"
    /\ bi > Len(batch)
    /\ ev' = IF AllStages(opts) THEN "full_run_done" ELSE "idle"
    /\ CommandEnds
    /\ FetcherDiscarded
    /\ UNCHANGED << tree, log, links, link_tags, batch_size, tag_tried, offVars >>

RECURSIVE ResetAll(_, _)
ResetAll(ls, ids) ==
    IF ids = << >> THEN ls
    ELSE ResetAll(ResetFetchStatus(ls, Head(ids)), Tail(ids))

RefetchLimit == 1000

\* the values of --limit of the refetch and retag commands: absent, 0, 1
CommandLimits == {None, Some(0), Some(1)}

\* the refetch command without --dry-run: "limit or 1000" rows are reset
Refetch(limit) ==
    /\ pc = "idle"
    /\ EmptyContent(links, MIN_CONTENT_LENGTH) /= {}
    /\ LET n == IF IsNone(limit) \/ Val(limit) = 0 THEN RefetchLimit ELSE Val(limit)
       IN \E ids \in GetEmptyContentLinks(links, n, MIN_CONTENT_LENGTH) :
             links' = ResetAll(links, ids)
    /\ ev' = "idle"
    /\ UNCHANGED << tree, log, link_tags, batch_size, pc, opts, files, fi, parsed,
                    li, batch, bi, repeat, resumed, tag_tried, others >>

\* Database.reset_summary(link_id), applied between two commands
ResetSummaryCall(id) ==
    /\ pc = "idle"
    /\ id \in 1..Len(links)
    /\ links' = ResetSummary(links, id)
    /\ ev' = "idle"
    /\ UNCHANGED << tree, log, link_tags, batch_size, pc, opts, files, fi, parsed,
                    li, batch, bi, repeat, resumed, tag_tried, others >>

\* Database.clear_tags_for_link(link_id), applied between two commands
ClearTagsCall(id) ==
    /\ pc = "idle"
    /\ id \in 1..Len(links)
    /\ link_tags' = ClearTagsForLink(link_tags, id)
    /\ ev' = "idle"
    /\ UNCHANGED << tree, log, links, batch_size, pc, opts, files, fi, parsed,
                    li, batch, bi, repeat, resumed, tag_tried, others >>

\* the options of the retag command
RetagOptions == [clear_existing : BOOLEAN, limit : CommandLimits]

\* what the model answers to the retag command
RetagResponses ==
    { [invoke |-> "error", json |-> "ok", items |-> << >>],
      [invoke |-> "ok", json |-> "ok",
       items |-> << TagItem("rust", "programming_language", "num", 90) >>] }

\* the retag command up to asyncio.run: clear_all_tags with --clear-existing,
\* then the query
RetagStart(clear_existing, limit) ==
    /\ pc = "idle"
    /\ pc' = "retag"
    /\ link_tags' = IF clear_existing THEN ClearAllTags(link_tags) ELSE link_tags
    /\ batch' \in GetAllLinksWithContent(links, limit)
    /\ bi' = 1
    /\ ev' = "retag_start"
    /\ UNCHANGED << tree, log, links, batch_size, opts, files, fi, parsed, li,
                    repeat, resumed, tag_tried, others >>

\* run_tagging: the body of "for i, link in enumerate(links)"
RetagLink(resp) ==
    /\ pc = "retag"
    /\ bi <= Len(batch)
    /\ link_tags' = AddTags(link_tags, batch[bi], TaggerTag(resp))
    /\ bi' = bi + 1
    /\ ev' = "retag"
    /\ UNCHANGED << tree, log, links, batch_size, pc, opts, files, fi, parsed, li,
                    batch, repeat, resumed, tag_tried, others >>

\* run_tagging returns; the tag statistics are printed and the command ends
RetagDone ==
    /\ pc = "retag"
    /\ bi > Len(batch)
    /\ CommandEnds
    /\ ev' = "idle"
    /\ UNCHANGED << tree, log, links, link_tags, batch_size, tag_tried, others >>

Next ==
    \/ \E file \in Files : \E text \in FileTexts(file) : EditFile(file, text)
    \/ \E n \in 0..MaxBatch : EditConfig(n)
    \/ \E o \in RunOptions : StartRun(o)
    \/ ExtractFile
    \/ InsertNext
    \/ FileDone
    \/ FetchStart
    \/ \E elapsed \in PipeElapsed : PipeRateLimit(elapsed)
    \/ PipeWake
    \/ \E net \in PipeNets : PipeResponse(net)
    \/ \E net \in PipeNets : FetchHtml(net)
    \/ \E net \in PipePdfNets : FetchPdf(net)
    \/ SummarizeStart
    \/ \E outcome \in SummarizerOutcomes : SummarizeLink(outcome)
    \/ TagStart
    \/ \E resp \in PipeTagResponses : TagLink(resp)
    \/ FinishRun
    \/ \E limit \in CommandLimits : Refetch(limit)

Spec == PipeInit /\ [][Next]_vars

(***************************************************************************)
(* The manual commands.  Full runs of the pipeline alternate with the      *)
(* refetch and the retag command and with calls of reset_summary and       *)
(* clear_tags_for_link, over notes that are not edited.                    *)
(***************************************************************************)
CommandTrees ==
    { t \in [Files -> Range(Texts)] :
        /\ t[File1] \in {TextAP, TextP}
        /\ t[File2] \in {TextNone, TextA} }

\* a PDF may also give a text too short to count as content
CommandPdfNets == PipePdfNets \cup { PdfNet("ok", "ok", 10, None) }

CommandsInit ==
    /\ tree \in CommandTrees
    /\ log = [f \in Files |-> None]
    /\ links = << >>
    /\ link_tags = {}
    /\ batch_size \in 1..MaxBatch
    /\ pc = "idle"
    /\ opts = FullRun
    /\ files = << >>
    /\ fi = 0
    /\ parsed = << >>
    /\ li = 0
    /\ batch = << >>
    /\ bi = 0
    /\ ev = "idle"
    /\ repeat = FALSE
    /\ tag_tried = {}
    /\ resumed = FALSE
    /\ ParseIdle
    /\ RateIdle
    /\ FetchIdle

CommandsNext ==
    \/ StartRun(FullRun)
    \/ ExtractFile
    \/ InsertNext
    \/ FileDone
    \/ FetchStart
    \/ \E elapsed \in PipeElapsed : PipeRateLimit(elapsed)
    \/ PipeWake
    \/ \E net \in PipeNets : PipeResponse(net)
    \/ \E net \in PipeNets : FetchHtml(net)
    \/ \E net \in CommandPdfNets : FetchPdf(net)
    \/ SummarizeStart
    \/ \E outcome \in SummarizerOutcomes : SummarizeLink(outcome)
    \/ TagStart
    \/ \E resp \in PipeTagResponses : TagLink(resp)
    \/ FinishRun
    \/ \E limit \in CommandLimits : Refetch(limit)
    \/ \E o \in RetagOptions : RetagStart(o.clear_existing, o.limit)
    \/ \E resp \in RetagResponses : RetagLink(resp)
    \/ RetagDone
    \/ \E id \in 1..Len(links) : ResetSummaryCall(id)
    \/ \E id \in 1..Len(links) : ClearTagsCall(id)

SpecCommands == CommandsInit /\ [][CommandsNext]_vars

(***************************************************************************)
(* Properties of the pipeline.                                             *)
(***************************************************************************)
Rows == 1..Len(links)

HasRecord(url) == \E i \in Rows : links[i].url = url

UniqueUrls == \A i, j \in Rows : links[i].url = links[j].url => i = j

\* the extract loop stands at a link whose URL already has a record
MeetsExisting == pc = "insert" /\ li <= Len(parsed) /\ HasRecord(parsed[li].url)

\* C1: in every reachable state no two LinkRecords share a URL, and the
\* step of the extract loop at a URL that already has a record inserts
\* nothing and changes nothing in the database: the loop goes on to the
\* next link of the file.
C1_Uniqueness ==
    /\ []UniqueUrls
    /\ [][MeetsExisting =>
            /\ links' = links
            /\ link_tags' = link_tags
            /\ log' = log
            /\ pc' = "insert"
            /\ li' = li + 1]_vars

\* a URL that already has a record, written differently in the notes, has
\* just been met and passed over
C1_Witness ==
    /\ pc = "insert"
    /\ li > 1
    /\ ev = "dup"
    /\ \E i \in Rows :
          /\ links[i].url = parsed[li - 1].url
          /\ links[i].source_file /= parsed[li - 1].source_file
          /\ links[i].description /= parsed[li - 1].description

FetchFields(r) ==
    << r.fetch_status, r.page_content, r.page_title, r.fetch_error, r.fetched_at >>

SummaryFields(r) == << r.summary, r.summarizer_model, r.summarized_at >>

TagSet(lt, id) == { a \in lt : a.link_id = id }

\* C2 as the specification states it: during a second complete run on an
\* unchanged source tree no record is created and every record keeps its
\* fetch status, fetch fields, summary and tag set.
C2_Idempotence ==
    [][repeat =>
         /\ Len(links') = Len(links)
         /\ \A i \in Rows :
               /\ FetchFields(links'[i]) = FetchFields(links[i])
               /\ SummaryFields(links'[i]) = SummaryFields(links[i])
               /\ TagSet(link_tags', i) = TagSet(link_tags, i)]_vars

\* C2, amended: during a second complete run on an unchanged source tree no
\* record is created, and a record keeps whatever the stages had finished
\* for it: its fetch status and fetch fields once it has left not_fetched,
\* its summary once that is non-null, its tag set once it is non-empty.
\* Records the first run left unfetched, unsummarized or untagged (beyond
\* batch_size, or after a failure) are taken up by the second run.
C2_IdempotenceOfFinishedWork ==
    [][repeat =>
         /\ Len(links') = Len(links)
         /\ \A i \in Rows :
               /\ links[i].fetch_status /= "not_fetched"
                    => FetchFields(links'[i]) = FetchFields(links[i])
               /\ ~IsNone(links[i].summary)
                    => SummaryFields(links'[i]) = SummaryFields(links[i])
               /\ TagSet(link_tags, i) /= {}
                    => TagSet(link_tags', i) = TagSet(link_tags, i)]_vars

\* a second complete run has gone through all its stages over a database
\* that holds a record fetched, summarized and tagged
C2_Witness ==
    /\ repeat
    /\ pc = "tag"
    /\ bi > Len(batch)
    /\ \E i \in Rows :
          /\ links[i].fetch_status = "success"
          /\ ~IsNone(links[i].summary)
          /\ TagSet(link_tags, i) /= {}

\* the extract loop stands at a file
AtFile == pc = "extract" /\ fi <= Len(files)

\* the processing log holds the hash of the file's present content
HashRecorded(file) ==
    /\ ~IsNone(log[file])
    /\ Val(log[file]) = FileHash(tree[file])

\* C3: in a run with skip_existing on, a file whose content hash equals the
\* hash recorded for its path is not parsed and inserts no link: the loop
\* goes on to the next file; a file with no log entry or with another
\* recorded hash is parsed.
C3_ChangeDetection ==
    [][AtFile /\ opts.skip_existing =>
         IF HashRecorded(files[fi])
         THEN /\ links' = links
              /\ parsed' = parsed
              /\ pc' = "extract"
              /\ fi' = fi + 1
         ELSE /\ parsed' = ParseFile(tree[files[fi]], FileDate(files[fi]), files[fi])
              /\ pc' = "insert"
              /\ li' = 1]_vars

\* a file that holds links has just been passed over, and the run goes on
C3_Witness ==
    /\ pc = "extract"
    /\ fi > 1
    /\ ev = "skip_file"
    /\ opts.skip_existing
    /\ tree[files[fi - 1]].has_section
    /\ HashRecorded(files[fi - 1])

\* the rows the summarize stage may take
Eligible ==
    { i \in Rows :
        /\ links[i].fetch_status \in {"success", "failed", "timeout", "skipped"}
        /\ IsNone(links[i].summary) }

\* C4: every row the summarize stage selected and has not yet worked on has
\* a fetch_status other than not_fetched and a null summary, and the
\* selection takes batch_size of the rows with fetch_status success,
\* failed, timeout or skipped and a null summary (all of them when there
\* are fewer): a not_fetched row is never selected.
C4_StageGating ==
    /\ [](pc = "summarize" =>
            \A k \in bi..Len(batch) :
                /\ links[batch[k]].fetch_status /= "not_fetched"
                /\ IsNone(links[batch[k]].summary))
    /\ [][pc = "fetch" /\ pc' = "summarize" /\ opts.summarize =>
            /\ Range(batch') \subseteq Eligible
            /\ Len(batch') = Min(batch_size, Cardinality(Eligible))]_vars

\* the summarize stage selected a skipped row and a failed row while an
\* unsummarized not_fetched row stayed out
C4_Witness ==
    /\ pc = "summarize"
    /\ bi = 1
    /\ \E k \in 1..Len(batch) :
          links[batch[k]].fetch_status \in {"skipped", "timeout", "failed"}
    /\ \E i \in Rows \ Range(batch) :
          links[i].fetch_status = "not_fetched" /\ IsNone(links[i].summary)

\* C9: when the summarizer or the tagger fails for a link of a batch, the
\* link's stored summary and tags stay as they were when the stage selected
\* it (no summary, no tag), and the stage goes on with the rest of the batch.
C9_ErrorIsolation ==
    /\ pc = "summarize" /\ ev = "sum_fail" =>
          IsNone(links[batch[bi - 1]].summary)
    /\ pc = "tag" /\ ev = "tag_fail" =>
          TagSet(link_tags, batch[bi - 1]) = {}

\* C10: once the summary of a record is non-null, no step of a run or of a
\* refetch changes its summary or its summarizer_model.
C10_SummarizedOnce ==
    [][\A i \in Rows :
          ~IsNone(links[i].summary) =>
              /\ links'[i].summary = links[i].summary
              /\ links'[i].summarizer_model = links[i].summarizer_model]_vars

\* a record summarized from its metadata was reset by refetch, fetched again
\* with real content, and the summarize stage has passed it by
C10_Witness ==
    /\ pc = "tag"
    /\ \E i \in Rows :
          /\ links[i].summarizer_model = Some("metadata")
          /\ links[i].fetch_status = "success"
          /\ Truthy(links[i].page_content)

\* the extract loop stands at a link of the file it parsed
AtLink == pc = "insert" /\ li <= Len(parsed)

\* the file being processed was processed before with another content
ChangedFile == ~IsNone(log[files[fi]]) /\ ~HashRecorded(files[fi])

\* a step of the extract stage that keeps what exists and adds at most the
\* link at hand
AdditiveStep ==
    /\ \A i \in Rows :
          /\ Len(links') >= i
          /\ links'[i] = links[i]
          /\ TagSet(link_tags', i) = TagSet(link_tags, i)
    /\ (AtLink /\ HasRecord(parsed[li].url)) =>
          /\ Len(links') = Len(links)
          /\ pc' = "insert"
          /\ li' = li + 1
    /\ (Len(links') > Len(links)) =>
          /\ AtLink
          /\ ~HasRecord(parsed[li].url)
          /\ Len(links') = Len(links) + 1
          /\ parsed[li].url = links'[Len(links')].url

\* C11: re-parsing is additive.  While a file is parsed and its links are
\* gone through, every record that exists keeps all its fields and its
\* tags; at a URL that has a record nothing is inserted and the loop goes
\* on, whatever the file now says about that URL; a row that is inserted
\* carries the URL of the link at hand, which had no record.
C11_ReparseAdditive == [][(pc = "extract" \/ pc = "insert") => AdditiveStep]_vars

\* a changed file is parsed again and a URL of it, fetched already, has
\* been passed over although the file now gives it another description
C11_Witness ==
    /\ pc = "insert"
    /\ li > 1
    /\ ev = "dup"
    /\ ChangedFile
    /\ \E i \in Rows :
          /\ links[i].url = parsed[li - 1].url
          /\ links[i].source_file = parsed[li - 1].source_file
          /\ links[i].description /= parsed[li - 1].description
          /\ links[i].fetch_status /= "not_fetched"

\* C12: in every stage of a run the batch the stage selected holds at most
\* batch_size rows, for every batch_size >= 0.
C12_BatchBound ==
    pc \in {"fetch", "summarize", "tag"} => Len(batch) <= batch_size

\* C13: when the timeout of a network operation of the fetch stage expires,
\* be it the GET of a page or the download of a PDF, the stage records the
\* status timeout on the record and goes on with the next link.
C13_TimeoutRecorded ==
    ev = "fetch_timeout" =>
        /\ pc = "fetch"
        /\ links[batch[bi - 1]].fetch_status = "timeout"

(***************************************************************************)
(* PDFExtractor.extract as a function of what the download and the PDF     *)
(* library do.                                                             *)
(***************************************************************************)
PdfDownloads == {"ok", "http_404", "http_500", "client_error", "timeout"}
PdfParses == {"ok", "cannot open broken document", "page tree damaged"}
PdfTextLens == {0, 10, 60, PdfMaxContentLength + 1}
PdfTitles == {None, Some(<< "Doc" >>)}

PdfBehaviours ==
    { PdfNet(d, e, n, t) : d \in PdfDownloads, e \in PdfParses,
                           n \in PdfTextLens, t \in PdfTitles }

PdfInit ==
    /\ f_url = UrlPdf
    /\ f_net \in { Some(n) : n \in PdfBehaviours }
    /\ f_state = "ready"
    /\ f_result = None
    /\ f_trace = << >>
    /\ ParseIdle
    /\ RateIdle
    /\ PipeIdle

\* one call of extract(f_url) against the behaviour f_net
PdfCall ==
    /\ f_state = "ready"
    /\ f_state' = "returned"
    /\ f_result' = Some(PdfExtract(Val(f_net)))
    /\ UNCHANGED << f_url, f_net, f_trace, parseVars, rateVars, pipeVars >>

PdfNext == PdfCall

SpecPdf == PdfInit /\ [][PdfNext]_vars

\* the message of the failure that made extract fail
UnderlyingMessage(net) ==
    CASE net.download = "http_404" -> << "HTTP", "404" >>
      [] net.download = "http_500" -> << "HTTP", "500" >>
      [] net.download = "client_error" -> << "client error" >>
      [] net.download = "timeout" -> << "Request timed out" >>
      [] OTHER -> << net.parse >>

PdfFails(net) == net.download /= "ok" \/ net.parse /= "ok"

\* C17: for every failure of the PDF extractor (a non-200 response, a
\* transport error or a timeout of the download, a parse error) the result
\* has status failed and its error is the message of that failure.
C17_PdfFailureMessage ==
    f_state = "returned" /\ PdfFails(Val(f_net)) =>
        /\ Val(f_result).status = "failed"
        /\ Val(f_result).error = Some(UnderlyingMessage(Val(f_net)))

\* the answer is a 200 whose content-type does not contain text/html
NonHtmlAnswer(net) ==
    /\ net.connect = "ok"
    /\ net.status = 200
    /\ net.ctype \in {"application/json", ""}

\* the fetch stage has stored a skip that names the content type
SkipPersisted(net) ==
    /\ pc' = "fetch"
    /\ bi' = bi + 1
    /\ links'[batch[bi]].fetch_status = "skipped"
    /\ links'[batch[bi]].page_content = None
    /\ links'[batch[bi]].page_title = None
    /\ links'[batch[bi]].fetch_error = Some(<< "Non-HTML content:", net.ctype >>)

\* C14: when the GET of a link of the fetch batch is answered by a 200 whose
\* content-type does not contain text/html, whether or not the body could
\* be read, the stage stores fetch_status skipped, a null page_content and
\* the content type in fetch_error, and goes on.
C14_ContentTypeSkip ==
    [][\A net \in PipeNets : (NonHtmlAnswer(net) /\ FetchHtml(net)) => SkipPersisted(net)]_vars

\* an application/json answer has just been stored as a skip
C14_Witness ==
    /\ pc = "fetch"
    /\ bi > 1
    /\ ev = "fetched"
    /\ links[batch[bi - 1]].fetch_status = "skipped"
    /\ links[batch[bi - 1]].fetch_error = Some(<< "Non-HTML content:", "application/json" >>)
    /\ links[batch[bi - 1]].page_content = None

\* a row as insert_link leaves it: not fetched, nothing fetched, no summary
FreshRecord(r) ==
    /\ r.fetch_status = "not_fetched"
    /\ r.page_title = None
    /\ r.page_content = None
    /\ r.fetch_error = None
    /\ r.fetched_at = None
    /\ r.summary = None
    /\ r.summarized_at = None
    /\ r.summarizer_model = None

LifecycleStep ==
    /\ Len(links') >= Len(links)
    /\ \A i \in Rows : links'[i].url = links[i].url
    /\ \A i \in (Len(links) + 1)..Len(links') :
          /\ FreshRecord(links'[i])
          /\ TagSet(link_tags', i) = {}

\* C15: every step of a run or of a refetch keeps every row (none is
\* deleted) under its id with its url, and a row that appears is
\* not_fetched with null fetch and summary fields and no tag.
C15_RecordLifecycle == [][LifecycleStep]_vars

\* a row has just been created beside one that is fetched, summarized and
\* tagged
C15_Witness ==
    /\ ev = "insert"
    /\ Len(links) >= 2
    /\ FreshRecord(links[Len(links)])
    /\ TagSet(link_tags, Len(links)) = {}
    /\ links[1].fetch_status = "success"
    /\ ~IsNone(links[1].summary)
    /\ TagSet(link_tags, 1) /= {}

\* the fetch stage works on a row in this step
FetchesRow == pc = "fetch" /\ bi <= Len(batch) /\ pc' = "fetch" /\ bi' = bi + 1

FetchTerminalStep ==
    /\ FetchesRow =>
          /\ links[batch[bi]].fetch_status = "not_fetched"
          /\ links'[batch[bi]].fetch_status \in FetchStatuses
    /\ \A i \in Rows :
          FetchFields(links'[i]) /= FetchFields(links[i]) =>
              /\ FetchesRow
              /\ i = batch[bi]
              /\ links[i].fetch_status = "not_fetched"

\* C16: the fetch stage works only on rows whose fetch_status is
\* not_fetched and leaves each of them success, failed, timeout or skipped;
\* no other step of a run changes the fetch_status or a fetch field of a
\* row, so a row that has left not_fetched keeps them through every run.
C16_FetchTerminal == [][pc /= "idle" => FetchTerminalStep]_vars

\* the fetch stage has just worked on a row while a row that failed, timed
\* out or was skipped in an earlier run stays out of its batch
C16_Witness ==
    /\ pc = "fetch"
    /\ bi > 1
    /\ links[batch[bi - 1]].fetch_status \in FetchStatuses
    /\ \E i \in Rows \ Range(batch) :
          links[i].fetch_status \in {"failed", "timeout", "skipped"}

\* the positions a run may move to from each position
StageSuccessors(p) ==
    CASE p = "idle" -> {"idle", "extract"}
      [] p = "extract" -> {"extract", "insert", "fetch"}
      [] p = "insert" -> {"insert", "extract", "idle"}
      [] p = "fetch" -> {"fetch", "summarize", "idle"}
      [] p = "summarize" -> {"summarize", "tag"}
      [] p = "tag" -> {"tag", "idle"}

\* the rows a stage may select, read off the tables as they stand
StageCandidates(p) ==
    CASE p = "fetch" -> { i \in Rows : links[i].fetch_status = "not_fetched" }
      [] p = "summarize" ->
            { i \in Rows : links[i].fetch_status /= "not_fetched"
                           /\ IsNone(links[i].summary) }
      [] p = "tag" ->
            { i \in Rows : links[i].fetch_status /= "not_fetched"
                           /\ TagSet(link_tags, i) = {} }

NewestFirst(b, ls) ==
    \A i, j \in 1..Len(b) :
        i < j => b[i] /= b[j] /\ ls[b[i]].source_date >= ls[b[j]].source_date

\* the step that enters a stage selects the batch and writes nothing
StageEntry ==
    /\ links' = links
    /\ link_tags' = link_tags
    /\ bi' = 1
    /\ Range(batch') \subseteq StageCandidates(pc')
    /\ NewestFirst(batch', links)

\* a step inside a stage handles the next row of the batch and writes that
\* row only; in the fetch stage the work on a row may first pass through the
\* suspensions of fetch(), which write no table and stay at the row
StageWork ==
    /\ batch' = batch
    /\ bi <= Len(batch)
    /\ bi' = bi + 1 \/ (bi' = bi /\ pc = "fetch" /\ links' = links)
    /\ Len(links') = Len(links)
    /\ \A i \in Rows : i /= batch[bi] => links'[i] = links[i]
    /\ { a \in link_tags' : a.link_id /= batch[bi] }
          = { a \in link_tags : a.link_id /= batch[bi] }

StageOrderStep ==
    /\ pc' \in StageSuccessors(pc)
    /\ (pc' /= pc /\ pc' \in {"fetch", "summarize", "tag"}) => StageEntry
    /\ (pc' = pc /\ pc \in {"fetch", "summarize", "tag"}) => StageWork
    /\ pc \in {"extract", "insert"} =>
          \A i, j \in 1..Len(files) : i < j => FileDate(files[i]) >= FileDate(files[j])

\* C20: a run goes through extract, fetch, summarize and tag in this order
\* and through no other; the step that enters fetch, summarize or tag selects
\* the batch among the rows eligible in the tables at that moment and writes
\* nothing; every later step of the stage handles the next row of the batch,
\* writes that row only and leaves the batch as selected; a batch is in
\* non-increasing source_date order and the files are extracted newest first.
C20_StageOrder == [][StageOrderStep]_vars

\* the fetch stage took the newer row, inserted second, before the older row
\* and has finished it while the older row still waits
C20_Witness ==
    /\ pc = "fetch"
    /\ batch = << 2, 1 >>
    /\ bi = 2
    /\ links[2].source_date > links[1].source_date
    /\ links[2].fetch_status /= "not_fetched"
    /\ links[1].fetch_status = "not_fetched"

\* the tag stage of a run whose fetch and summarize stages worked is at work
C20_WitnessTag ==
    /\ pc = "tag"
    /\ bi = 2
    /\ Len(batch) >= 1
    /\ ev = "tag_ok"
    /\ links[batch[1]].fetch_status = "success"
    /\ ~IsNone(links[batch[1]].summary)

\* the tag stage calls the tagger for a row in this step
TagsRow == pc = "tag" /\ bi <= Len(batch) /\ pc' = "tag" /\ bi' = bi + 1

\* C21 as the specification states it: over all runs together the tagger is
\* called once for a record, so the tag stage never calls it for a row it
\* was called for before.
C21_TaggedOnce == [][TagsRow => batch[bi] \notin tag_tried]_vars

TagGatingStep ==
    /\ (pc = "summarize" /\ pc' = "tag" /\ opts.tag) =>
          /\ \A k \in 1..Len(batch') :
                /\ links[batch'[k]].fetch_status /= "not_fetched"
                /\ TagSet(link_tags, batch'[k]) = {}
          /\ \A k, k2 \in 1..Len(batch') : batch'[k] = batch'[k2] => k = k2
    /\ TagsRow =>
          /\ links[batch[bi]].fetch_status /= "not_fetched"
          /\ TagSet(link_tags, batch[bi]) = {}
          /\ \A k \in 1..(bi - 1) : batch[k] /= batch[bi]
    /\ \A i \in Rows :
          TagSet(link_tags, i) /= {} =>
              TagSet(link_tags', i) = TagSet(link_tags, i)

\* C21: the tag stage selects only rows whose fetch_status is not
\* not_fetched and that have no tag association, each at most once in a run;
\* the tagger is called only for such a row (a row whose earlier call gave no
\* tag is such a row again in a later run), and no step of a run changes the
\* tags of a row that has at least one.
C21_TagGating == [][pc \notin {"idle", "retag"} => TagGatingStep]_vars

\* the tagger has tagged a row in this run while a row tagged by an earlier
\* run stayed out of the batch
C21_Witness ==
    /\ pc = "tag"
    /\ bi > 1
    /\ ev = "tag_ok"
    /\ TagSet(link_tags, batch[bi - 1]) /= {}
    /\ \E i \in Rows \ Range(batch) :
          /\ TagSet(link_tags, i) /= {}
          /\ i \in tag_tried

\* the tagger is called again for a row whose call in an earlier run gave
\* no tag
C21_WitnessRetry ==
    /\ pc = "tag"
    /\ bi <= Len(batch)
    /\ batch[bi] \in tag_tried
    /\ TagSet(link_tags, batch[bi]) = {}

\* the summarize stage works on a row in this step
SummarizesRow == pc = "summarize" /\ bi <= Len(batch) /\ pc' = "summarize" /\ bi' = bi + 1

HasContent(r) == ~IsNone(r.page_content) /\ Val(r.page_content) > 0

\* page_title, description and title of a record, those that are present
MetadataOf(r) ==
    SelectSeq(<< r.page_title, r.description, r.title >>,
              LAMBDA t : ~IsNone(t) /\ Val(t) /= << >>)

\* parts holds every present value of the metadata once, in the order
\* page_title, description, title
BuiltFromMetadata(parts, r) ==
    /\ Range(parts) = { Val(t) : t \in Range(MetadataOf(r)) }
    /\ \A i, j \in 1..Len(parts) : i /= j => parts[i] /= parts[j]
    /\ \A i, j \in 1..Len(parts) :
          i < j =>
              \E m \in 1..Len(MetadataOf(r)) :
                  /\ Val(MetadataOf(r)[m]) = parts[i]
                  /\ \A n \in 1..m : Val(MetadataOf(r)[n]) /= parts[j]

SummaryFallbackStep ==
    LET id == batch[bi]
        r == links[id]
    IN /\ ev' \in {"sum_ok", "sum_fail"} <=> HasContent(r)
       /\ ev' = "sum_ok" =>
             /\ links'[id].summary = Some(LlmSummary)
             /\ links'[id].summarizer_model = Some(ModelName)
       /\ ev' = "sum_fail" => links' = links
       /\ (~HasContent(r) /\ MetadataOf(r) /= << >>) =>
             /\ ev' = "sum_meta"
             /\ ~IsNone(links'[id].summary)
             /\ BuiltFromMetadata(Val(links'[id].summary), r)
             /\ links'[id].summarizer_model = Some("metadata")
       /\ (~HasContent(r) /\ MetadataOf(r) = << >>) =>
             /\ ev' = "sum_none"
             /\ links' = links

\* C23: the summarize stage calls the summarizer for a row exactly when the
\* row has non-empty page_content; a row without it gets as summary the
\* present values among page_title, description and title, each once and in
\* this order, with summarizer_model "metadata", and is left without a
\* summary when none of the three is present.
C23_SummaryFallback == [][SummarizesRow => SummaryFallbackStep]_vars

\* a row whose fetch did not succeed got a metadata summary
C23_Witness ==
    /\ pc = "summarize"
    /\ bi > 1
    /\ ev = "sum_meta"
    /\ links[batch[bi - 1]].fetch_status \in {"failed", "timeout", "skipped"}
    /\ links[batch[bi - 1]].summarizer_model = Some("metadata")

\* a row with neither content nor metadata was left without a summary
C23_WitnessNone ==
    /\ pc = "summarize"
    /\ bi > 1
    /\ ev = "sum_none"
    /\ IsNone(links[batch[bi - 1]].summary)

\* a fetched page of too little text got a metadata summary from two values
C23_WitnessEmptySuccess ==
    /\ pc = "summarize"
    /\ bi > 1
    /\ ev = "sum_meta"
    /\ links[batch[bi - 1]].fetch_status = "success"
    /\ Len(Val(links[batch[bi - 1]].summary)) >= 2

(***************************************************************************)
(* The tag stage alone, for every kind of answer the model may give: the   *)
(* stage has selected two fetched, untagged rows and calls the tagger for  *)
(* each.                                                                   *)
(***************************************************************************)
MaxItems == 2

TagItems ==
    { TagItem("python", "programming_language", "num", 90),
      TagItem("python", "programming_language", "num", -50),
      TagItem("python", "programming_language", "num", 150),
      TagItem("rust", "programming_language", "num", 90),
      TagItem("rust", "culture", "num", 90),
      TagItem("nosuch", "programming_language", "num", 90),
      TagItem("python", "nosuch", "num", 90),
      TagItem("rust", "programming_language", "text", 0),
      TagItem("rust", "programming_language", "null", 0) }

TagResponses ==
    { [invoke |-> "error", json |-> "ok", items |-> << >>],
      [invoke |-> "ok", json |-> "invalid", items |-> << >>],
      [invoke |-> "ok", json |-> "not_object", items |-> << >>] }
    \cup { [invoke |-> "ok", json |-> "ok", items |-> it] :
             it \in UNION { [1..n -> TagItems] : n \in 0..MaxItems } }

\* the table links after the extract, fetch and summarize stages of a run on
\* TextAP: the page was fetched and its summarizer call failed, the PDF
\* download failed and the row got its metadata summary
TagStageRows ==
    LET found == ParseFile(TextAP, FileDate(File1), File1)
        l1 == InsertLink(<< >>, found[1])
        l2 == InsertLink(l1, found[2])
        l3 == UpdateFetchResult(l2, 1, "success", Some(60), Some(<< "A" >>), None)
        l4 == UpdateFetchResult(l3, 2, "failed", None, None,
                                Some(<< "Failed to download PDF" >>))
    IN SummarizeOne(SummarizeOne(l4, 1, "error"), 2, "ok")

TagStageInit ==
    /\ tree = [f \in Files |-> IF f = File1 THEN TextAP ELSE TextNone]
    /\ log = [f \in Files |-> Some(FileHash(tree[f]))]
    /\ links = TagStageRows
    /\ link_tags = {}
    /\ batch_size \in 1..2
    /\ pc = "tag"
    /\ opts = FullRun
    /\ files = Scan
    /\ fi = Len(Scan) + 1
    /\ parsed = << >>
    /\ li = 0
    /\ batch \in GetUntaggedLinks(links, link_tags, batch_size)
    /\ bi = 1
    /\ ev = "tag_start"
    /\ repeat = FALSE
    /\ tag_tried = {}
    /\ resumed = FALSE
    /\ ParseIdle
    /\ RateIdle
    /\ FetchIdle

TagStageNext ==
    \/ \E resp \in TagResponses : TagLink(resp)
    \/ FinishRun

SpecTag == TagStageInit /\ [][TagStageNext]_vars

\* C24: every row of link_tags has a confidence between 0 and 1, a tag name
\* of the vocabulary under the category the vocabulary lists it in, and
\* source llm, and no two rows share a record and a tag.
C24_AssociationsValid ==
    /\ \A a \in link_tags :
          /\ a.confidence >= 0
          /\ a.confidence <= 100
          /\ a.tag.category \in DOMAIN AVAILABLE_TAGS
          /\ a.tag.name \in AVAILABLE_TAGS[a.tag.category]
          /\ a.source = "llm"
    /\ \A a, b \in link_tags :
          (a.link_id = b.link_id /\ a.tag.name = b.tag.name) => a = b

(***************************************************************************)
(* Extraction under interruption: runs with the fetch, summarize and tag   *)
(* stages switched off, any of which may be killed inside its extraction   *)
(* loop, with the notes edited between commands.                           *)
(***************************************************************************)
ExtractOnly == [FullRun EXCEPT !.fetch = FALSE, !.summarize = FALSE, !.tag = FALSE]

ExtractOptions == { ExtractOnly, [ExtractOnly EXCEPT !.skip_existing = FALSE] }

ExtractNext ==
    \/ \E file \in Files : \E text \in FileTexts(file) : EditFile(file, text)
    \/ \E o \in ExtractOptions : StartRun(o)
    \/ ExtractFile
    \/ InsertNext
    \/ FileDone
    \/ Interrupt
    \/ FetchStart
    \/ SummarizeStart
    \/ TagStart
    \/ FinishRun

SpecExtract == PipeInit /\ [][ExtractNext]_vars

\* the URLs parse_file finds in a file as it stands
UrlsOf(file) ==
    { l.url : l \in Range(ParseFile(tree[file], FileDate(file), file)) }

\* the processing log holds the hash the file has now
MarkedCurrent(file) == log[file] = Some(FileHash(tree[file]))

ResumableStep ==
    /\ \A f \in Files :
          log'[f] /= log[f] =>
              /\ log'[f] = Some(FileHash(tree[f]))
              /\ \A u \in UrlsOf(f) : HasRecord(u)
    /\ (pc \in {"extract", "insert"} /\ Len(links') > Len(links)) =>
          /\ Len(links') = Len(links) + 1
          /\ links'[Len(links')].url \in UrlsOf(files[fi])
          /\ ~HasRecord(links'[Len(links')].url)

\* C25: a file is marked processed only when every URL parsed from it has a
\* record, and the extract stage creates records only for URLs of the file at
\* hand that have none; hence every file marked with its current hash has all
\* its URLs recorded, and when the extract stage of a run is through (the run
\* before it interrupted or not) every URL of every file has exactly one
\* record.
C25_Resumable ==
    /\ [][ResumableStep]_vars
    /\ [](\A f \in Files : MarkedCurrent(f) => \A u \in UrlsOf(f) : HasRecord(u))
    /\ []((pc = "extract" /\ fi > Len(files)) =>
            /\ \A f \in Files : \A u \in UrlsOf(f) : HasRecord(u)
            /\ UniqueUrls)

\* the run that follows an interrupted one, with the notes untouched, found
\* the first link of the newest file recorded by the interrupted run, has
\* inserted the second and is about to mark the file
C25_Witness ==
    /\ resumed
    /\ pc = "insert"
    /\ fi = 1
    /\ li > Len(parsed)
    /\ Len(parsed) = 2
    /\ ev = "insert"
    /\ links[Len(links)].url = parsed[2].url
    /\ \E i \in Rows : links[i].url = parsed[1].url /\ links[i].source_file = files[1]
    /\ ~MarkedCurrent(files[1])

\* a run was interrupted between the two links of a file
C25_WitnessInterrupted ==
    /\ ev = "interrupt"
    /\ HasRecord(UrlA)
    /\ ~HasRecord(UrlPdf)
    /\ UrlsOf(File1) = {UrlA, UrlPdf}
    /\ ~MarkedCurrent(File1)

\* the extract stage of the run that follows an interrupted one is through
C25_WitnessThrough ==
    /\ resumed
    /\ pc = "extract"
    /\ fi > Len(files)
    /\ UrlsOf(File1) = {UrlA, UrlPdf}

(***************************************************************************)
(* Repeated complete runs on notes nobody edits, with a summarizer that    *)
(* answers every call: run() is sequential code whose loops are finite, so *)
(* a run that can take a step takes it, and when a command has ended the   *)
(* next run is started.                                                    *)
(***************************************************************************)
ProgressTrees ==
    { t \in [Files -> Range(Texts)] :
        /\ t[File1] \in {TextNone, TextAP, TextP}
        /\ t[File2] \in {TextNone, TextA, TextBad} }

ProgressInit ==
    /\ tree \in ProgressTrees
    /\ log = [f \in Files |-> None]
    /\ links = << >>
    /\ link_tags = {}
    /\ batch_size \in 1..MaxBatch
    /\ pc = "idle"
    /\ opts = FullRun
    /\ files = << >>
    /\ fi = 0
    /\ parsed = << >>
    /\ li = 0
    /\ batch = << >>
    /\ bi = 0
    /\ ev = "idle"
    /\ repeat = FALSE
    /\ tag_tried = {}
    /\ resumed = FALSE
    /\ ParseIdle
    /\ RateIdle
    /\ FetchIdle

ProgressNext ==
    \/ StartRun(FullRun)
    \/ ExtractFile
    \/ InsertNext
    \/ FileDone
    \/ FetchStart
    \/ \E elapsed \in PipeElapsed : PipeRateLimit(elapsed)
    \/ PipeWake
    \/ \E net \in PipeNets : PipeResponse(net)
    \/ \E net \in PipeNets : FetchHtml(net)
    \/ \E net \in PipePdfNets : FetchPdf(net)
    \/ SummarizeStart
    \/ SummarizeLink("ok")
    \/ TagStart
    \/ \E resp \in PipeTagResponses : TagLink(resp)
    \/ FinishRun

SpecProgress == ProgressInit /\ [][ProgressNext]_vars /\ WF_vars(ProgressNext)

NotFetchedRows == { i \in Rows : links[i].fetch_status = "not_fetched" }

\* C26: a fetch stage selects min(batch size, backlog) rows and takes each
\* of them out of not_fetched, and under repeated runs every record that is
\* not_fetched eventually is not.
C26_FetchProgress ==
    /\ [][(pc = "extract" /\ pc' = "fetch" /\ opts.fetch) =>
            Len(batch') = Min(batch_size, Cardinality(NotFetchedRows))]_vars
    /\ [](pc = "fetch" =>
            /\ \A k \in 1..Len(batch) :
                  k < bi <=> links[batch[k]].fetch_status /= "not_fetched"
            /\ \A k, k2 \in 1..Len(batch) : batch[k] = batch[k2] => k = k2)
    /\ \A u \in {UrlA, UrlPdf} :
          (\E i \in Rows : links[i].url = u /\ links[i].fetch_status = "not_fetched")
              ~> (\E i \in Rows : links[i].url = u /\ links[i].fetch_status /= "not_fetched")

\* C27: under repeated runs with a summarizer that answers every call,
\* every record that has left not_fetched with non-empty page_content and
\* has no summary eventually has one.
C27_SummarizeProgress ==
    \A u \in {UrlA, UrlPdf} :
        (\E i \in Rows : /\ links[i].url = u
                          /\ links[i].fetch_status /= "not_fetched"
                          /\ HasContent(links[i])
                          /\ IsNone(links[i].summary))
            ~> (\E i \in Rows : links[i].url = u /\ ~IsNone(links[i].summary))

\* C28: in every state a not_fetched record has no page_content, page_title
\* or fetch_error; a record with page_content has fetch_status success; a
\* success record has no fetch_error; a failed, timeout or skipped record has
\* a fetch_error.
C28_RecordInvariant ==
    \A i \in Rows :
        /\ links[i].fetch_status \in {"not_fetched"} \cup FetchStatuses
        /\ links[i].fetch_status = "not_fetched" =>
              /\ IsNone(links[i].page_content)
              /\ IsNone(links[i].page_title)
              /\ IsNone(links[i].fetch_error)
        /\ ~IsNone(links[i].page_content) => links[i].fetch_status = "success"
        /\ links[i].fetch_status = "success" => IsNone(links[i].fetch_error)
        /\ links[i].fetch_status \in {"failed", "timeout", "skipped"} =>
              ~IsNone(links[i].fetch_error)

\* a record fetched, summarized and then reset by refetch stands beside a
\* record whose fetch did not succeed
C28_Witness ==
    \E i, j \in Rows :
        /\ links[i].fetch_status = "not_fetched"
        /\ ~IsNone(links[i].summary)
        /\ ~IsNone(links[i].summarized_at)
        /\ links[j].fetch_status \in {"failed", "timeout", "skipped"}
        /\ ~IsNone(links[j].fetch_error)

\* a record fetched with content stands beside a record never fetched
C28_WitnessContent ==
    \E i, j \in Rows :
        /\ links[i].fetch_status = "success"
        /\ HasContent(links[i])
        /\ ~IsNone(links[i].page_title)
        /\ links[j].fetch_status = "not_fetched"
        /\ IsNone(links[j].summary)

Provenance(r) ==
    << r.url, r.title, r.description, r.domain, r.source_date, r.source_file,
       r.parent_url, r.indent_level >>

\* row i goes back to not_fetched in this step
IsReset(i) ==
    links[i].fetch_status /= "not_fetched" /\ links'[i].fetch_status = "not_fetched"

ManualRefetchStep ==
    /\ Len(links') >= Len(links)
    /\ \A i \in Rows :
          IsReset(i) =>
              /\ pc = "idle" /\ pc' = "idle"
              /\ links[i].fetch_status = "success"
              /\ (IsNone(links[i].page_content) \/ Val(links[i].page_content) < 50)
              /\ FetchFields(links'[i]) = << "not_fetched", None, None, None, None >>
              /\ SummaryFields(links'[i]) = SummaryFields(links[i])
              /\ Provenance(links'[i]) = Provenance(links[i])
              /\ TagSet(link_tags', i) = TagSet(link_tags, i)

\* C29: a record goes back to not_fetched only by the refetch command, never
\* in a step of a pipeline run, and only from fetch_status success with no
\* page_content or one of fewer than 50 characters; the step clears its fetch
\* fields and leaves its summary fields, provenance and tags as they were.
C29_ManualRefetch == [][ManualRefetchStep]_vars

\* a record that was fetched, summarized and tagged has been reset and keeps
\* its summary and its tags
C29_Witness ==
    /\ pc = "idle"
    /\ \E i \in Rows :
          /\ links[i].fetch_status = "not_fetched"
          /\ IsNone(links[i].fetched_at)
          /\ links[i].summarizer_model = Some("metadata")
          /\ TagSet(link_tags, i) /= {}

\* refetch --limit 1 has reset one of two records with too little content:
\* the other is still success with its short content
C29_WitnessLimit ==
    /\ pc = "idle"
    /\ \E i, j \in Rows :
          /\ links[i].fetch_status = "not_fetched"
          /\ ~IsNone(links[i].summary)
          /\ j \in EmptyContent(links, MIN_CONTENT_LENGTH)

====
